---- MODULE Spec2Model ----
(***************************************************************************)
(* A model of the trilium-api note mapper (TriliumMapper, its extractValue *)
(* and its merge), of the built-in transforms, of the query builder        *)
(* buildSearchQuery and of the searchAndMap helper of the client.          *)
(*                                                                         *)
(* JavaScript values are records with the fields type, s and n (an array   *)
(* of strings has its items too), so that any two of them can be compared. *)
(* A string the code takes apart (a source path) is a sequence of tokens:  *)
(* "#", "~", "." and identifier words.  A string the code builds (an error *)
(* message) is the sequence of its fragments.                              *)
(***************************************************************************)
EXTENDS Integers, Sequences, FiniteSets, TLC

VARIABLES
    config,     \* TriliumMapper.config of the mapper under test
    pc,         \* the mapper's caller: "idle", "returned" or "thrown"
    arg,        \* the argument of the last map() call
    ret,        \* what the last map() call produced
    cpc,        \* searchAndMap: "idle", "awaiting", "resolved", "rejected"
    options,    \* the options of the searchAndMap invocation in progress
    requests,   \* the search requests this invocation has sent
    response,   \* what the transport answered
    sret,       \* what the searchAndMap invocation produced
    qpc,        \* the caller of buildSearchQuery: "idle", "returned" or "thrown"
    qarg,       \* the argument of the last buildSearchQuery() call
    qret,       \* what the last buildSearchQuery() call produced
    mpc,        \* the caller of TriliumMapper.merge: "idle" or "returned"
    marg,       \* the arguments of the last merge() call
    mret,       \* what the last merge() call returned
    held,       \* the notes of the last map() call as they are after it
    standard,   \* the exported StandardNoteMapping object as it is now
    tpc,        \* the caller of a built-in transform: "idle" or "returned"
    targ,       \* the transform last called and the value handed to it
    tret,       \* what that transform produced
    xpc,        \* the caller of extractValue: "idle" or "returned"
    xarg,       \* the note and the path of the last extractValue() call
    xret        \* what the last extractValue() call produced

vars == <<config, pc, arg, ret, cpc, options, requests, response, sret,
          qpc, qarg, qret, mpc, marg, mret, held, standard,
          tpc, targ, tret, xpc, xarg, xret>>

mapperVars == <<config, pc, arg, ret, held>>
clientVars == <<cpc, options, requests, response, sret, standard>>
queryVars == <<qpc, qarg, qret>>
mergeVars == <<mpc, marg, mret>>
transformVars == <<tpc, targ, tret>>
extractVars == <<xpc, xarg, xret>>

----------------------------------------------------------------------------
(* Bounds of the model *)

MaxBatch == 2       \* longest array handed to map(notes)
MaxFields == 2      \* most fields of a mapper configuration
MaxResults == 2     \* most notes in a search response
MaxCustom == 1      \* most fields of a searchAndMap custom mapping
MaxEntries == 2     \* most entries of a leaf map of a structured query
MaxChildren == 2    \* most children of an AND or OR list
MaxConfigs == 3     \* most configurations handed to merge

----------------------------------------------------------------------------
(* Only({F(x) : x \in {e}}) is F(e) with e evaluated once, as a statement   *)
(* of the program evaluates its expression once before going on.            *)

Only(S) == CHOOSE x \in S : TRUE

----------------------------------------------------------------------------
(* JavaScript values *)

Undefined == [type |-> "undefined", s |-> "", n |-> 0]
Null == [type |-> "null", s |-> "", n |-> 0]
NaN == [type |-> "number", s |-> "NaN", n |-> 0]
Str(x) == [type |-> "string", s |-> x, n |-> 0]
Num(k) == [type |-> "number", s |-> "", n |-> k]
Bool(b) == [type |-> "boolean", s |-> "", n |-> IF b THEN 1 ELSE 0]
DateOf(ts) == [type |-> "date", s |-> "", n |-> ts]

\* JavaScript truthiness: undefined, null, false, 0, NaN and '' are falsy
Truthy(v) ==
    CASE v.type = "undefined" -> FALSE
      [] v.type = "null" -> FALSE
      [] v.type = "boolean" -> v.n = 1
      [] v.type = "number" -> v.s # "NaN" /\ v.n # 0
      [] v.type = "string" -> v.s # ""
      [] OTHER -> TRUE

\* String(v) and template-literal interpolation `${v}`
JSString(v) ==
    CASE v.type = "undefined" -> "undefined"
      [] v.type = "null" -> "null"
      [] v.type = "boolean" -> IF v.n = 1 THEN "true" ELSE "false"
      [] v.type = "number" -> IF v.s = "NaN" THEN "NaN" ELSE ToString(v.n)
      [] v.type = "string" -> v.s
      [] OTHER -> "[object]"

\* The pieces of a string that the code takes apart: a space and a comma are
\* pieces of their own, the text between them is one piece
Atoms(x) ==
    CASE x = "" -> <<>>
      [] x = "  " -> <<" ", " ">>
      [] x = " hello " -> <<" ", "hello", " ">>
      [] x = "not a date" -> <<"not", " ", "a", " ", "date">>
      [] x = "a,b" -> <<"a", ",", "b">>
      [] x = " a , ,b " -> <<" ", "a", " ", ",", " ", ",", "b", " ">>
      [] OTHER -> <<x>>

\* The string made of the pieces
RECURSIVE Concat(_)
Concat(atoms) == IF atoms = <<>> THEN "" ELSE Head(atoms) \o Concat(Tail(atoms))

\* String.prototype.trim on the pieces of a string
RECURSIVE TrimAtoms(_)
TrimAtoms(atoms) ==
    IF atoms = <<>> THEN atoms
    ELSE IF Head(atoms) = " " THEN TrimAtoms(Tail(atoms))
    ELSE IF atoms[Len(atoms)] = " " THEN TrimAtoms(SubSeq(atoms, 1, Len(atoms) - 1))
    ELSE atoms

\* str.trim()
Trim(x) == Concat(TrimAtoms(Atoms(x)))

\* The decimal strings of the model and the numbers Number() reads in them
NumericStrings == [x \in {"1000", "0", "1", "7"} |->
    CASE x = "1000" -> 1000 [] x = "0" -> 0 [] x = "1" -> 1 [] x = "7" -> 7]

\* Number(value)
ToNumber(v) ==
    CASE v.type = "undefined" -> NaN
      [] v.type = "null" -> Num(0)
      [] v.type = "boolean" -> Num(v.n)
      [] v.type = "number" -> v
      [] v.type = "date" -> Num(v.n)
      [] v.type = "string" ->
            \* white space around the number is skipped
            LET str == Trim(v.s)
            IN IF str = "" THEN Num(0)
               ELSE IF str \in DOMAIN NumericStrings THEN Num(NumericStrings[str])
               ELSE NaN

\* The date strings of the model and the day new Date() reads in them
DateStrings == [x \in {"2024-01-15T10:30:00.000Z", "2024-02-20T08:00:00.000Z"} |->
    IF x = "2024-01-15T10:30:00.000Z" THEN 19737 ELSE 19773]

----------------------------------------------------------------------------
(* Built-in transforms *)

transforms_number(value) ==
    IF value = Undefined \/ value = Null \/ value = Str("") THEN Undefined
    ELSE LET num == ToNumber(value) IN IF num = NaN THEN Undefined ELSE num

transforms_boolean(value) ==
    IF value = Undefined \/ value = Null THEN Undefined
    ELSE IF value.type = "boolean" THEN value
    ELSE IF value.type = "string"
         THEN \* the strings of the model are lower case already
              IF value.s \in {"true", "1", "yes"} THEN Bool(TRUE)
              ELSE IF value.s \in {"false", "0", "no"} THEN Bool(FALSE)
              ELSE Undefined
    ELSE Undefined

transforms_date(value) ==
    IF value = Undefined \/ value = Null \/ value = Str("") THEN Undefined
    ELSE LET str == JSString(value) IN
         IF str \in DOMAIN DateStrings THEN DateOf(DateStrings[str]) ELSE Undefined

\* value.split(',')
RECURSIVE SplitCommas(_)
SplitCommas(atoms) ==
    IF \A i \in 1..Len(atoms) : atoms[i] # "," THEN <<atoms>>
    ELSE LET c == CHOOSE i \in 1..Len(atoms) :
                    atoms[i] = "," /\ \A j \in 1..(i - 1) : atoms[j] # ","
         IN <<SubSeq(atoms, 1, c - 1)>> \o SplitCommas(SubSeq(atoms, c + 1, Len(atoms)))

ArrayOf(items) == [type |-> "array", s |-> "", n |-> Len(items), items |-> items]
ObjectOf(text) == [type |-> "object", s |-> text, n |-> 0]

transforms_commaSeparated(value) ==
    IF value = Undefined \/ value = Null \/ value = Str("") THEN Undefined
    ELSE IF value.type # "string" THEN Undefined
    ELSE LET parts == SplitCommas(Atoms(value.s))
             trimmed == [i \in 1..Len(parts) |-> Str(Concat(TrimAtoms(parts[i])))]
         IN ArrayOf(SelectSeq(trimmed, Truthy))

\* The JSON texts of the model and the values JSON.parse reads in them; it
\* throws a SyntaxError for every other string
JSONTexts == [x \in {"1000", "0", "1", "true", "false", "null", "{\"a\":1}"} |->
    CASE x = "true" -> Bool(TRUE)
      [] x = "false" -> Bool(FALSE)
      [] x = "null" -> Null
      [] x = "{\"a\":1}" -> ObjectOf(x)
      [] OTHER -> Num(NumericStrings[x])]

\* JSON.parse(text)
JSONParse(text) ==
    IF text \in DOMAIN JSONTexts
    THEN [value |-> JSONTexts[text], thrown |-> FALSE, error |-> <<>>]
    ELSE [value |-> Undefined, thrown |-> TRUE, error |-> <<"SyntaxError">>]

\* What a built-in transform produces: the value it returns or the error it
\* throws
Produced(v) == [value |-> v, thrown |-> FALSE, error |-> <<>>]

\* transforms.json without its try and catch
transforms_json_NoCatch(value) ==
    IF value = Undefined \/ value = Null \/ value = Str("") THEN Produced(Undefined)
    ELSE IF value.type # "string" THEN Produced(Undefined)
    ELSE JSONParse(value.s)

transforms_json(value) ==
    IF value = Undefined \/ value = Null \/ value = Str("") THEN Produced(Undefined)
    ELSE IF value.type # "string" THEN Produced(Undefined)
    ELSE LET parsed == JSONParse(value.s)
         IN IF parsed.thrown THEN Produced(Undefined) ELSE parsed

\* String(value).trim() || undefined
transforms_trim(value) ==
    IF value = Undefined \/ value = Null THEN Undefined
    ELSE LET trimmed == Str(Trim(JSString(value)))
         IN IF Truthy(trimmed) THEN trimmed ELSE Undefined

\* transforms[name](value)
CallTransform(name, value) ==
    CASE name = "number" -> Produced(transforms_number(value))
      [] name = "boolean" -> Produced(transforms_boolean(value))
      [] name = "commaSeparated" -> Produced(transforms_commaSeparated(value))
      [] name = "json" -> transforms_json(value)
      [] name = "date" -> Produced(transforms_date(value))
      [] name = "trim" -> Produced(transforms_trim(value))

----------------------------------------------------------------------------
(* Notes *)

Attr(type, name, value) == [type |-> type, value |-> value, name |-> name]

\* note.attributes is an array or is missing
Attrs(items) == [items |-> items, present |-> TRUE]
NoAttrs == [items |-> <<>>, present |-> FALSE]

Note(noteId, title, created, modified, attributes) ==
    [noteId |-> noteId,
     title |-> title,
     attributes |-> attributes,
     utcDateCreated |-> created,
     utcDateModified |-> modified]

Notes == {
    Note(Str("n1"), Str("Test Note"), Str("2024-01-15T10:30:00.000Z"),
         Str("2024-02-20T08:00:00.000Z"),
         Attrs(<<Attr("label", <<"slug">>, "my-post"),
                 Attr("label", <<"wordCount">>, "1000"),
                 Attr("relation", <<"slug">>, "rel")>>)),
    Note(Str("n2"), Str(""), Str("2024-01-15T10:30:00.000Z"),
         Str("2024-01-15T10:30:00.000Z"),
         Attrs(<<Attr("label", <<"wordCount">>, "0")>>)),
    Note(Undefined, Null, Str("2024-01-15T10:30:00.000Z"),
         Str("2024-02-20T08:00:00.000Z"),
         Attrs(<<Attr("relation", <<"slug">>, "x"),
                 Attr("label", <<"slug">>, "s3"),
                 Attr("label", <<"slug">>, "dup"),
                 Attr("label", <<"wordCount">>, "abc")>>)),
    Note(Str("n4"), Undefined, Str("not a date"),
         Str("2024-02-20T08:00:00.000Z"), NoAttrs),
    Note(Str(""), Str("T5"), Str("2024-01-15T10:30:00.000Z"),
         Undefined, Attrs(<<>>)) }

\* note[key] for one path segment
NoteProp(note, seg) ==
    CASE seg = <<"noteId">> -> note.noteId
      [] seg = <<"title">> -> note.title
      [] seg = <<"utcDateCreated">> -> note.utcDateCreated
      [] seg = <<"utcDateModified">> -> note.utcDateModified
      [] seg = <<"attributes">> ->
            IF note.attributes.present
            THEN [type |-> "array", s |-> "attributes", n |-> Len(note.attributes.items)]
            ELSE Undefined
      [] OTHER -> Undefined

----------------------------------------------------------------------------
(* Mapping configuration *)

\* FieldMapping: kind "string" is the shorthand path, "object" the
\* {from, transform, default, required} form, "computed" the {computed,
\* default} form and "undefined" a key whose mapping is left out.  A default
\* of Undefined is no default.
Shorthand(path) ==
    [kind |-> "string", from |-> path, fromFn |-> "", transform |-> "",
     computed |-> "", default |-> Undefined, required |-> FALSE]
From(path, transform, default, required) ==
    [kind |-> "object", from |-> path, fromFn |-> "", transform |-> transform,
     computed |-> "", default |-> default, required |-> required]
FromFn(fn, transform, default, required) ==
    [kind |-> "object", from |-> <<>>, fromFn |-> fn, transform |-> transform,
     computed |-> "", default |-> default, required |-> required]
Computed(fn, default) ==
    [kind |-> "computed", from |-> <<>>, fromFn |-> "", transform |-> "",
     computed |-> fn, default |-> default, required |-> FALSE]

Field(key, mapping) == [key |-> key, mapping |-> mapping]

\* The fields a configuration of the model is made of
FieldUniverse == {
    Field("slug", Shorthand(<<"#", "slug">>)),
    Field("slug", From(<<"#", "slug">>, "", Undefined, TRUE)),
    Field("slug", Shorthand(<<>>)),
    Field("wordCount", From(<<"#", "wordCount">>, "number", Num(7), FALSE)),
    Field("wordCount", From(<<"#", "wordCount">>, "boolean", Bool(TRUE), TRUE)),
    Field("wordCount", From(<<"#", "wordCount">>, "number", Undefined, TRUE)),
    Field("title", From(<<"note", ".", "title">>, "", Str("Untitled"), TRUE)),
    Field("title", FromFn("throws", "", Undefined, FALSE)),
    Field("readTimeMinutes", Computed("readTime", Num(1))),
    Field("readTimeMinutes", Computed("undefined", Num(1))),
    Field("summary", Computed("echoReadTime", Undefined)),
    Field("summary", Computed("throws", Str("No summary available"))) }

\* A configuration is an object: its entries in Object.entries order, no key twice
DistinctKeys(cfg) == \A i, j \in 1..Len(cfg) : cfg[i].key = cfg[j].key => i = j

ConfigsUpTo(n) ==
    UNION {{cfg \in [1..k -> FieldUniverse] : DistinctKeys(cfg)} : k \in 0..n}

Configs == ConfigsUpTo(MaxFields)

----------------------------------------------------------------------------
(* Objects built by the mapper: entries in insertion order *)

HasKey(obj, key) == \E i \in 1..Len(obj) : obj[i].key = key

\* obj[key]
Get(obj, key) ==
    IF HasKey(obj, key)
    THEN obj[CHOOSE i \in 1..Len(obj) : obj[i].key = key].value
    ELSE Undefined

\* obj[key] = value
Put(obj, key, value) ==
    IF HasKey(obj, key)
    THEN [i \in 1..Len(obj) |->
            IF obj[i].key = key THEN [value |-> value, key |-> key] ELSE obj[i]]
    ELSE Append(obj, [value |-> value, key |-> key])

----------------------------------------------------------------------------
(* Functions the caller supplies in a configuration *)

Returned(v) == [value |-> v, thrown |-> FALSE, error |-> <<>>]
Thrown(message) == [value |-> Undefined, thrown |-> TRUE, error |-> message]

\* from: (note) => ...
ApplyExtractor(fn, note) ==
    CASE fn = "labelCount" ->
            Returned(IF note.attributes.present
                     THEN Num(Cardinality({i \in 1..Len(note.attributes.items) :
                                note.attributes.items[i].type = "label"}))
                     ELSE Num(0))
      [] fn = "throws" -> Thrown(<<"extractor failed">>)

\* transform: (value, note) => ...
ApplyTransform(fn, value, note) ==
    CASE fn = "number" -> Returned(transforms_number(value))
      [] fn = "boolean" -> Returned(transforms_boolean(value))
      [] fn = "date" -> Returned(transforms_date(value))
      [] fn = "commaSeparated" -> Returned(transforms_commaSeparated(value))
      [] fn = "json" -> transforms_json(value)
      [] fn = "trim" -> Returned(transforms_trim(value))
      [] fn = "throws" -> Thrown(<<"transform failed">>)

\* Math.ceil(n / 200)
CeilDiv200(n) == IF n >= 0 THEN (n + 199) \div 200 ELSE -((-n) \div 200)

\* computed: (partial, note) => ...
ApplyComputed(fn, partial, note) ==
    CASE fn = "readTime" ->
            LET wc == Get(partial, "wordCount")
                num == ToNumber(IF Truthy(wc) THEN wc ELSE Num(0))
            IN Returned(IF num = NaN THEN NaN ELSE Num(CeilDiv200(num.n)))
      [] fn = "echoReadTime" -> Returned(Get(partial, "readTimeMinutes"))
      [] fn = "undefined" -> Returned(Undefined)
      [] fn = "throws" -> Thrown(<<"computed failed">>)

----------------------------------------------------------------------------
(* TriliumMapper.extractValue *)

\* path.slice(k): the string without its first k tokens
Slice(path, k) == SubSeq(path, k + 1, Len(path))

StartsWith(path, prefix) ==
    Len(path) >= Len(prefix) /\ SubSeq(path, 1, Len(prefix)) = prefix

\* str.split('.'): the segments between the dots, one segment at least
RECURSIVE Split(_)
Split(str) ==
    IF \A i \in 1..Len(str) : str[i] # "." THEN <<str>>
    ELSE LET d == CHOOSE i \in 1..Len(str) :
                    str[i] = "." /\ \A j \in 1..(i - 1) : str[j] # "."
         IN <<SubSeq(str, 1, d - 1)>> \o Split(Slice(str, d))

\* FindAttribute with a test of the name alone
FindAttribute_AnyType(note, type, name) ==
    IF ~note.attributes.present THEN Undefined
    ELSE LET items == note.attributes.items
             hits == {i \in 1..Len(items) : items[i].name = name}
         IN IF hits = {} THEN Undefined
            ELSE Str(items[CHOOSE i \in hits : \A j \in hits : i <= j].value)

\* attributes?.find(attr => attr.type === type && attr.name === name)?.value
FindAttribute(note, type, name) ==
    IF ~note.attributes.present THEN Undefined
    ELSE LET items == note.attributes.items
             hits == {i \in 1..Len(items) : items[i].type = type /\ items[i].name = name}
         IN IF hits = {} THEN Undefined
            ELSE Str(items[CHOOSE i \in hits : \A j \in hits : i <= j].value)

\* segs.reduce((obj, key) => obj?.[key], note): the note's own properties are
\* primitives or an array, none of which has a property of the model's names
ReduceProps(note, segs) ==
    IF Len(segs) = 1 THEN NoteProp(note, segs[1]) ELSE Undefined

extractValue(note, path) ==
    IF path = <<>> THEN Undefined
    ELSE IF StartsWith(path, <<"#">>) THEN FindAttribute(note, "label", Slice(path, 1))
    ELSE IF StartsWith(path, <<"~">>) THEN FindAttribute(note, "relation", Slice(path, 1))
    ELSE IF StartsWith(path, <<"note", ".">>) THEN ReduceProps(note, Split(Slice(path, 2)))
    ELSE Undefined

\* ExtractValue with note.attributes.find(...).value for the attribute paths:
\* a TypeError when the list or the attribute is missing
ExtractValue_Unguarded(note, path) ==
    IF path # <<>> /\ (StartsWith(path, <<"#">>) \/ StartsWith(path, <<"~">>))
                  /\ extractValue(note, path) = Undefined
    THEN Thrown(<<"TypeError">>)
    ELSE Returned(extractValue(note, path))

\* The call this.extractValue(note, path): every access on its way is
\* guarded by ?., so it returns
ExtractValue(note, path) == Returned(extractValue(note, path))

----------------------------------------------------------------------------
(* TriliumMapper.mapSingle *)

\* `Required field '${key}' missing from note ${note.noteId} (${note.title})`
RequiredMessage(key, note) ==
    <<"Required field '", key, "' missing from note ", JSString(note.noteId),
      " (", JSString(note.title), ")">>

\* ApplyDefault written with `value || mapping.default`
ApplyDefault_Falsy(value, mapping) ==
    IF ~Truthy(value) /\ mapping.default # Undefined THEN mapping.default ELSE value

\* if (value === undefined && mapping.default !== undefined) value = mapping.default
ApplyDefault(value, mapping) ==
    IF value = Undefined /\ mapping.default # Undefined THEN mapping.default ELSE value

\* RequiredMissing written with `!value`
RequiredMissing_Falsy(value, mapping) == mapping.required /\ ~Truthy(value)

\* mapping.required && value === undefined
RequiredMissing(value, mapping) == mapping.required /\ value = Undefined

\* !fieldMapping: a left-out mapping and the empty shorthand are falsy
Falsy(fieldMapping) ==
    \/ fieldMapping.kind = "undefined"
    \/ fieldMapping.kind = "string" /\ fieldMapping.from = <<>>

\* typeof fieldMapping === 'object' && 'computed' in fieldMapping
IsComputed(fieldMapping) == fieldMapping.kind = "computed"

\* What a call of a caller-supplied function, or a direct field, looked like:
\* the partial result is the one object `result` as it was at that moment
Call(what, key, partial) == [key |-> key, partial |-> partial, what |-> what]

\* The locals of mapSingle, plus the error it threw and the calls it made
MapState == [thrown |-> FALSE, error |-> <<>>, result |-> <<>>,
             computedFields |-> <<>>, calls |-> <<>>]

Throw(st, message, call) ==
    [st EXCEPT !.thrown = TRUE, !.error = message, !.calls = Append(@, call)]

\* extract, transform, default, required check and store of one direct field
Extract(mapping, note) ==
    IF mapping.fromFn # "" THEN ApplyExtractor(mapping.fromFn, note)
    ELSE ExtractValue(note, mapping.from)

Transform(raw, mapping, note) ==
    IF raw.thrown \/ mapping.transform = "" THEN raw
    ELSE ApplyTransform(mapping.transform, raw.value, note)

\* DirectField with the required check made on the extracted value, before
\* transform and default
DirectField_CheckFirst(st, key, mapping, note) ==
    LET call == Call("direct", key, st.result)
        raw == Extract(mapping, note)
        transformed == Transform(raw, mapping, note)
    IN IF raw.thrown THEN Throw(st, raw.error, call)
       ELSE IF RequiredMissing(raw.value, mapping)
            THEN Throw(st, RequiredMessage(key, note), call)
       ELSE IF transformed.thrown THEN Throw(st, transformed.error, call)
       ELSE [st EXCEPT !.result = Put(@, key, ApplyDefault(transformed.value, mapping)),
                       !.calls = Append(@, call)]

DirectField(st, key, mapping, note) ==
    LET call == Call("direct", key, st.result)
        Store(transformed) ==
            IF transformed.thrown THEN Throw(st, transformed.error, call)
            ELSE IF RequiredMissing(ApplyDefault(transformed.value, mapping), mapping)
                 THEN Throw(st, RequiredMessage(key, note), call)
            ELSE [st EXCEPT !.result = Put(@, key, ApplyDefault(transformed.value, mapping)),
                            !.calls = Append(@, call)]
    IN Only({Store(Transform(raw, mapping, note)) : raw \in {Extract(mapping, note)}})

\* FirstPassStep with a computed field resolved where it is declared
FirstPassStep_Inline(st, field, note) ==
    IF Falsy(field.mapping) THEN st
    ELSE IF IsComputed(field.mapping)
         THEN LET computed == ApplyComputed(field.mapping.computed, st.result, note)
                  value == ApplyDefault(computed.value, field.mapping)
                  call == Call("computed", field.key, st.result)
              IN IF computed.thrown THEN Throw(st, computed.error, call)
                 ELSE [st EXCEPT !.result = Put(@, field.key, value),
                                 !.calls = Append(@, call)]
    ELSE DirectField(st, field.key, field.mapping, note)

\* One iteration of the first loop of mapSingle
FirstPassStep(st, field, note) ==
    IF Falsy(field.mapping) THEN st
    ELSE IF IsComputed(field.mapping)
         THEN [st EXCEPT !.computedFields = Append(@, field)]
    ELSE DirectField(st, field.key, field.mapping, note)

\* SecondPassStep handing the computed function a copy of the first pass's
\* result instead of the object being filled
SecondPassStep_PassOneOnly(st, field, note) ==
    LET passOne == SelectSeq(st.result, LAMBDA p :
                      \A j \in 1..Len(st.computedFields) : st.computedFields[j].key # p.key)
        computed == ApplyComputed(field.mapping.computed, passOne, note)
        value == ApplyDefault(computed.value, field.mapping)
        call == Call("computed", field.key, passOne)
    IN IF computed.thrown THEN Throw(st, computed.error, call)
       ELSE [st EXCEPT !.result = Put(@, field.key, value), !.calls = Append(@, call)]

\* One iteration of the second loop of mapSingle
SecondPassStep(st, field, note) ==
    LET call == Call("computed", field.key, st.result)
        Store(computed) ==
            IF computed.thrown THEN Throw(st, computed.error, call)
            ELSE [st EXCEPT !.result = Put(@, field.key,
                                           ApplyDefault(computed.value, field.mapping)),
                            !.calls = Append(@, call)]
    IN Only({Store(computed) :
                computed \in {ApplyComputed(field.mapping.computed, st.result, note)}})

RECURSIVE FirstPass(_, _, _, _)
FirstPass(st, cfg, i, note) ==
    IF st.thrown \/ i > Len(cfg) THEN st
    ELSE Only({FirstPass(next, cfg, i + 1, note) :
                  next \in {FirstPassStep(st, cfg[i], note)}})

\* SecondPass that runs after a first pass that threw, too
RECURSIVE SecondPass_Always(_, _, _)
SecondPass_Always(st, i, note) ==
    IF i > Len(st.computedFields) THEN st
    ELSE SecondPass_Always(SecondPassStep(st, st.computedFields[i], note), i + 1, note)

RECURSIVE SecondPass(_, _, _)
SecondPass(st, i, note) ==
    IF st.thrown \/ i > Len(st.computedFields) THEN st
    ELSE Only({SecondPass(next, i + 1, note) :
                  next \in {SecondPassStep(st, st.computedFields[i], note)}})

\* mapSingle(note) under configuration cfg: the object it returns, or the
\* error it throws, and the calls it made on the way
mapSingle(cfg, note) ==
    LET Outcome(st) ==
            [value |-> IF st.thrown THEN <<>> ELSE st.result,
             thrown |-> st.thrown,
             error |-> st.error,
             calls |-> st.calls]
    IN Only({Outcome(SecondPass(first, 1, note)) :
                first \in {FirstPass(MapState, cfg, 1, note)}})

----------------------------------------------------------------------------
(* TriliumMapper.map *)

\* The state of noteOrNotes.map(callback): the array built so far, the
\* error that ended it, and the calls of each element mapped
ArrayState == [value |-> <<>>, thrown |-> FALSE, error |-> <<>>, calls |-> <<>>]

\* MapElement putting each mapped note in front of the ones before it
MapElement_Prepend(st, cfg, note) ==
    LET m == mapSingle(cfg, note)
    IN IF m.thrown
       THEN [st EXCEPT !.thrown = TRUE, !.error = m.error, !.value = <<>>,
                       !.calls = Append(@, m.calls)]
       ELSE [st EXCEPT !.value = <<m.value>> \o @, !.calls = Append(@, m.calls)]

\* MapElement leaving out a note whose mapping throws
MapElement_SkipFailed(st, cfg, note) ==
    LET m == mapSingle(cfg, note)
    IN IF m.thrown THEN [st EXCEPT !.calls = Append(@, m.calls)]
       ELSE [st EXCEPT !.value = Append(@, m.value), !.calls = Append(@, m.calls)]

\* One call of the arrow function (note) => this.mapSingle(note)
MapElement(st, cfg, note) ==
    LET Mapped(m) ==
            IF m.thrown
            THEN [st EXCEPT !.thrown = TRUE, !.error = m.error, !.value = <<>>,
                            !.calls = Append(@, m.calls)]
            ELSE [st EXCEPT !.value = Append(@, m.value), !.calls = Append(@, m.calls)]
    IN Only({Mapped(m) : m \in {mapSingle(cfg, note)}})

RECURSIVE ArrayMap(_, _, _, _)
ArrayMap(st, cfg, notes, i) ==
    IF st.thrown \/ i > Len(notes) THEN st
    ELSE Only({ArrayMap(next, cfg, notes, i + 1) :
                  next \in {MapElement(st, cfg, notes[i])}})

\* map(noteOrNotes); a.isArray is Array.isArray(noteOrNotes)
map(cfg, a) ==
    IF a.isArray THEN ArrayMap(ArrayState, cfg, a.notes, 1)
    ELSE LET Single(m) ==
                 [value |-> IF m.thrown THEN <<>> ELSE <<m.value>>,
                  thrown |-> m.thrown,
                  error |-> m.error,
                  calls |-> <<m.calls>>]
         IN Only({Single(m) : m \in {mapSingle(cfg, a.notes[1])}})

OneNote(note) == [notes |-> <<note>>, isArray |-> FALSE]
NoteArray(notes) == [notes |-> notes, isArray |-> TRUE]

NoteArrays == UNION {[1..k -> Notes] : k \in 0..MaxBatch}

----------------------------------------------------------------------------
(* What a map() call leaves of the notes it is handed.  The note is passed  *)
(* by reference to extractValue and to the caller's functions; the caller's *)
(* functions of the model do not write to it.                               *)

\* AfterFind for a search that takes the attributes off the array one by one
AfterFind_Shift(attributes) ==
    IF attributes.present THEN [attributes EXCEPT !.items = <<>>] ELSE attributes

\* note.attributes after note.attributes?.find(...): find reads the elements
AfterFind(attributes) == attributes

\* The note after extractValue(note, path)
AfterExtractValue(note, path) ==
    IF path # <<>> /\ (StartsWith(path, <<"#">>) \/ StartsWith(path, <<"~">>))
    THEN [note EXCEPT !.attributes = AfterFind(@)]
    ELSE note

\* The note after the step of mapSingle that made the given call
AfterCall(note, cfg, call) ==
    LET mapping == cfg[CHOOSE i \in 1..Len(cfg) : cfg[i].key = call.key].mapping
    IN IF call.what = "direct" /\ mapping.fromFn = ""
       THEN AfterExtractValue(note, mapping.from)
       ELSE note

RECURSIVE AfterCalls(_, _, _, _)
AfterCalls(note, cfg, calls, i) ==
    IF i > Len(calls) THEN note
    ELSE AfterCalls(AfterCall(note, cfg, calls[i]), cfg, calls, i + 1)

\* The notes after map(noteOrNotes) made the given calls, one list for each
\* note it got to
NotesAfter(cfg, a, calls) ==
    [i \in 1..Len(a.notes) |->
        IF i <= Len(calls) THEN AfterCalls(a.notes[i], cfg, calls[i], 1)
        ELSE a.notes[i]]

----------------------------------------------------------------------------
(* Search conditions.  A value of a structured query has one shape: t is its *)
(* type, s the atoms of a string, n a number (1 and 0 for true and false),   *)
(* entries the own properties of an object or the elements of an array in    *)
(* Object.entries order.  A string is the sequence of its atoms; the space   *)
(* is an atom of its own and no atom is a proper part of "AND" or "OR".      *)

QUndefined == [s |-> <<>>, n |-> 0, t |-> "undefined", entries |-> <<>>]
QNull == [s |-> <<>>, n |-> 0, t |-> "null", entries |-> <<>>]
QBool(b) == [s |-> <<>>, n |-> IF b THEN 1 ELSE 0, t |-> "boolean", entries |-> <<>>]
QNum(k) == [s |-> <<>>, n |-> k, t |-> "number", entries |-> <<>>]
QStr(atoms) == [s |-> atoms, n |-> 0, t |-> "string", entries |-> <<>>]
QObj(entries) == [s |-> <<>>, n |-> 0, t |-> "object", entries |-> entries]
QArr(items) ==
    [s |-> <<>>,
     n |-> 0,
     t |-> "array",
     entries |-> [i \in 1..Len(items) |-> [value |-> items[i], key |-> <<ToString(i - 1)>>]]]

Entry(key, value) == [value |-> value, key |-> key]

\* typeof v === 'object' for a value that is not null
IsObject(v) == v.t \in {"object", "array"}

\* key in obj
In(key, obj) == \E i \in 1..Len(obj.entries) : obj.entries[i].key = key

\* obj[key]
Prop(obj, key) ==
    IF In(key, obj)
    THEN obj.entries[CHOOSE i \in 1..Len(obj.entries) : obj.entries[i].key = key].value
    ELSE QUndefined

QTruthy(v) ==
    CASE v.t \in {"undefined", "null"} -> FALSE
      [] v.t \in {"boolean", "number"} -> v.n # 0
      [] v.t = "string" -> v.s # <<>>
      [] OTHER -> TRUE

\* `${v}`: an array is its elements joined by commas, null and undefined
\* elements being empty
RECURSIVE Stringify(_)
RECURSIVE StringifyItems(_, _)
StringifyItems(entries, i) ==
    IF i > Len(entries) THEN <<>>
    ELSE (IF i = 1 THEN <<>> ELSE <<",">>)
         \o (IF entries[i].value.t \in {"undefined", "null"} THEN <<>>
             ELSE Stringify(entries[i].value))
         \o StringifyItems(entries, i + 1)
Stringify(v) ==
    CASE v.t = "undefined" -> <<"undefined">>
      [] v.t = "null" -> <<"null">>
      [] v.t = "boolean" -> IF v.n = 1 THEN <<"true">> ELSE <<"false">>
      [] v.t = "number" -> <<ToString(v.n)>>
      [] v.t = "string" -> v.s
      [] v.t = "object" -> <<"[object Object]">>
      [] v.t = "array" -> StringifyItems(v.entries, 1)

\* str.includes(pattern)
Includes(str, pattern) ==
    \E i \in 1..(Len(str) - Len(pattern) + 1) :
        SubSeq(str, i, i + Len(pattern) - 1) = pattern

\* parts.join(separator)
RECURSIVE Join(_, _)
Join(parts, separator) ==
    IF parts = <<>> THEN <<>>
    ELSE IF Len(parts) = 1 THEN parts[1]
    ELSE parts[1] \o separator \o Join(Tail(parts), separator)

AND_ == <<" ", "AND", " ">>
OR_ == <<" ", "OR", " ">>

----------------------------------------------------------------------------
(* buildSearchQuery *)

\* typeof value === 'object' && 'value' in value
IsConditionValue(value) == IsObject(value) /\ In(<<"value">>, value)

\* Operator that never reads value.operator
Operator_Default(value, fallback) == fallback

\* value.operator || fallback
Operator(value, fallback) ==
    IF QTruthy(Prop(value, <<"operator">>))
    THEN Stringify(Prop(value, <<"operator">>)) ELSE fallback

\* typeof value.value === 'string' ? `'${value.value}'` : value.value
Operand(value) ==
    LET v == Prop(value, <<"value">>)
    IN IF v.t = "string" THEN <<"'">> \o v.s \o <<"'">> ELSE Stringify(v)

\* `${lhs} ${operator} ${val}`
Comparison(lhs, operator, val) == lhs \o <<" ">> \o operator \o <<" ">> \o val

Quoted(value) == <<"'">> \o value.s \o <<"'">>

\* LabelParts without the presence and absence forms of a boolean
LabelParts_Equals(key, value) ==
    IF IsConditionValue(value)
    THEN <<Comparison(key, Operator(value, <<"=">>), Operand(value))>>
    ELSE IF value.t = "string" THEN <<Comparison(key, <<"=">>, Quoted(value))>>
    ELSE <<Comparison(key, <<"=">>, Stringify(value))>>

\* LabelParts with the rules of the simple name for every name
LabelParts_Simple(key, value) ==
    LET labelName == Slice(key, 1)
    IN IF value = QBool(TRUE) THEN <<(<<"#">> \o labelName)>>
       ELSE IF value = QBool(FALSE) THEN <<(<<"#", "!">> \o labelName)>>
       ELSE IF IsConditionValue(value)
            THEN <<Comparison(<<"#">> \o labelName, Operator(value, <<"=">>),
                              Operand(value))>>
       ELSE IF value.t = "string"
            THEN <<Comparison(<<"#">> \o labelName, <<"=">>, Quoted(value))>>
       ELSE <<Comparison(<<"#">> \o labelName, <<"=">>, Stringify(value))>>

\* The parts one entry of a leaf map pushes: none or one
LabelParts(key, value) ==
    LET labelName == Slice(key, 1)
    IN IF Includes(labelName, <<".">>)
       THEN IF IsConditionValue(value)
            THEN <<Comparison(key, Operator(value, <<"=">>), Operand(value))>>
            ELSE IF value.t = "string" THEN <<Comparison(key, <<"=">>, Quoted(value))>>
            ELSE <<Comparison(key, <<"=">>, Stringify(value))>>
       ELSE IF value = QBool(TRUE) THEN <<(<<"#">> \o labelName)>>
            ELSE IF value = QBool(FALSE) THEN <<(<<"#", "!">> \o labelName)>>
            ELSE IF IsConditionValue(value)
                 THEN <<Comparison(<<"#">> \o labelName, Operator(value, <<"=">>),
                                   Operand(value))>>
            ELSE IF value.t = "string"
                 THEN <<Comparison(<<"#">> \o labelName, <<"=">>, Quoted(value))>>
            ELSE <<Comparison(<<"#">> \o labelName, <<"=">>, Stringify(value))>>

\* RelationParts with the dotted name rendered by the rules of the simple name
RelationParts_Contains(key, value) ==
    IF IsConditionValue(value)
    THEN <<Comparison(key, Operator(value, <<"*=*">>), Operand(value))>>
    ELSE IF value.t = "string" THEN <<Comparison(key, <<"*=*">>, Quoted(value))>>
    ELSE <<>>

RelationParts(key, value) ==
    LET relationName == Slice(key, 1)
    IN IF Includes(relationName, <<".">>)
       THEN IF IsConditionValue(value)
            THEN <<Comparison(key, Operator(value, <<"=">>), Operand(value))>>
            ELSE IF value.t = "string" THEN <<Comparison(key, <<"=">>, Quoted(value))>>
            ELSE <<Comparison(key, <<"=">>, Stringify(value))>>
       ELSE IF IsConditionValue(value)
            THEN <<Comparison(key, Operator(value, <<"*=*">>), Operand(value))>>
            ELSE IF value.t = "string" THEN <<Comparison(key, <<"*=*">>, Quoted(value))>>
            ELSE <<>>

\* NotePropertyParts that puts "note." before every key
NotePropertyParts_AlwaysPrefix(key, value) ==
    LET path == <<"note", ".">> \o key
    IN IF IsConditionValue(value)
       THEN <<Comparison(path, Operator(value, <<"=">>), Operand(value))>>
       ELSE IF value.t = "string" THEN <<Comparison(path, <<"=">>, Quoted(value))>>
       ELSE <<Comparison(path, <<"=">>, Stringify(value))>>

NotePropertyParts(key, value) ==
    LET path == IF StartsWith(key, <<"note", ".">>) THEN key ELSE <<"note", ".">> \o key
    IN IF IsConditionValue(value)
       THEN <<Comparison(path, Operator(value, <<"=">>), Operand(value))>>
       ELSE IF value.t = "string" THEN <<Comparison(path, <<"=">>, Quoted(value))>>
       ELSE <<Comparison(path, <<"=">>, Stringify(value))>>

\* EntryParts that skips undefined only
EntryParts_NullRendered(key, value) ==
    IF value = QUndefined THEN <<>>
    ELSE IF StartsWith(key, <<"#">>) THEN LabelParts(key, value)
    ELSE IF StartsWith(key, <<"~">>) THEN RelationParts(key, value)
    ELSE NotePropertyParts(key, value)

\* One iteration of the loop over Object.entries(helpers)
EntryParts(key, value) ==
    IF value = QUndefined \/ value = QNull THEN <<>>
    ELSE IF StartsWith(key, <<"#">>) THEN LabelParts(key, value)
    ELSE IF StartsWith(key, <<"~">>) THEN RelationParts(key, value)
    ELSE NotePropertyParts(key, value)

RECURSIVE LeafParts(_, _)
LeafParts(entries, i) ==
    IF i > Len(entries) THEN <<>>
    ELSE EntryParts(entries[i].key, entries[i].value) \o LeafParts(entries, i + 1)

\* The child of an AND list as it is joined: in parentheses if it contains OR
AndChild(query) ==
    IF Includes(query, OR_) THEN <<"(">> \o query \o <<")">> ELSE query

\* OrChild that looks for OR only
OrChild_OnlyOr(query) ==
    IF Includes(query, OR_) THEN <<"(">> \o query \o <<")">> ELSE query

\* The child of an OR list as it is joined: in parentheses if it contains AND or OR
OrChild(query) ==
    IF Includes(query, AND_) \/ Includes(query, OR_)
    THEN <<"(">> \o query \o <<")">> ELSE query

NotMessage == <<"NOT operator requires a query object, not a simple value">>

\* The TypeError of `'AND' in helpers` for helpers that is no object
InMessage == <<"Cannot use 'in' operator to search for 'AND'">>

\* IsQueryObject that takes any object, a {value, operator} pair too
IsQueryObject_AnyObject(notValue) == IsObject(notValue)

\* Is the NOT value a query object?
IsQueryObject(notValue) == IsObject(notValue) /\ ~In(<<"value">>, notValue)

RECURSIVE buildSearchQuery(_)
RECURSIVE BuildChildren(_, _, _, _)

\* helpers[op].map(h => ...) for op "AND" or "OR": the children built so far
\* are in parts; a child that throws ends the whole build
BuildChildren(entries, i, op, parts) ==
    IF i > Len(entries) THEN Returned(Join(parts, IF op = "AND" THEN AND_ ELSE OR_))
    ELSE LET Built(query) ==
                 IF query.thrown THEN query
                 ELSE Only({BuildChildren(entries, i + 1, op, next) :
                              next \in {Append(parts, IF op = "AND" THEN AndChild(query.value)
                                                      ELSE OrChild(query.value))}})
         IN Only({Built(query) : query \in {buildSearchQuery(entries[i].value)}})

\* buildSearchQuery that looks for NOT first, then OR, then AND
buildSearchQuery_NotFirst(helpers) ==
    IF ~IsObject(helpers) THEN Thrown(InMessage)
    ELSE IF In(<<"NOT">>, helpers) /\ Prop(helpers, <<"NOT">>) # QUndefined
         THEN LET notValue == Prop(helpers, <<"NOT">>)
              IN IF IsQueryObject(notValue)
                 THEN LET Negated(query) ==
                              IF query.thrown THEN query
                              ELSE Returned(<<"not", "(">> \o query.value \o <<")">>)
                      IN Only({Negated(query) : query \in {buildSearchQuery(notValue)}})
                 ELSE Thrown(NotMessage)
    ELSE IF In(<<"OR">>, helpers) /\ Prop(helpers, <<"OR">>).t = "array"
         THEN BuildChildren(Prop(helpers, <<"OR">>).entries, 1, "OR", <<>>)
    ELSE IF In(<<"AND">>, helpers) /\ Prop(helpers, <<"AND">>).t = "array"
         THEN BuildChildren(Prop(helpers, <<"AND">>).entries, 1, "AND", <<>>)
    ELSE Returned(Join(LeafParts(helpers.entries, 1), AND_))

buildSearchQuery(helpers) ==
    IF ~IsObject(helpers) THEN Thrown(InMessage)
    ELSE IF In(<<"AND">>, helpers) /\ Prop(helpers, <<"AND">>).t = "array"
         THEN BuildChildren(Prop(helpers, <<"AND">>).entries, 1, "AND", <<>>)
    ELSE IF In(<<"OR">>, helpers) /\ Prop(helpers, <<"OR">>).t = "array"
         THEN BuildChildren(Prop(helpers, <<"OR">>).entries, 1, "OR", <<>>)
    ELSE IF In(<<"NOT">>, helpers) /\ Prop(helpers, <<"NOT">>) # QUndefined
         THEN LET notValue == Prop(helpers, <<"NOT">>)
              IN IF IsQueryObject(notValue)
                 THEN LET Negated(query) ==
                              IF query.thrown THEN query
                              ELSE Returned(<<"not", "(">> \o query.value \o <<")">>)
                      IN Only({Negated(query) : query \in {buildSearchQuery(notValue)}})
                 ELSE Thrown(NotMessage)
    ELSE Returned(Join(LeafParts(helpers.entries, 1), AND_))

----------------------------------------------------------------------------
(* TriliumMapper.merge and StandardNoteMapping *)

\* PutField that leaves a key that is already there as it is
PutField_KeepFirst(target, field) ==
    IF \E i \in 1..Len(target) : target[i].key = field.key
    THEN target
    ELSE Append(target, field)

\* target[field.key] = field.mapping
PutField(target, field) ==
    IF \E i \in 1..Len(target) : target[i].key = field.key
    THEN [i \in 1..Len(target) |-> IF target[i].key = field.key THEN field ELSE target[i]]
    ELSE Append(target, field)

\* Object.assign(target, source), property after property
RECURSIVE AssignFrom(_, _, _)
AssignFrom(target, source, i) ==
    IF i > Len(source) THEN target
    ELSE Only({AssignFrom(next, source, i + 1) : next \in {PutField(target, source[i])}})

\* Object.assign({}, ...configs)
RECURSIVE merge(_)
merge(configs) ==
    IF configs = <<>> THEN <<>>
    ELSE AssignFrom(merge(SubSeq(configs, 1, Len(configs) - 1)),
                    configs[Len(configs)], 1)

\* MergeEffect for Object.assign(...configs), whose target is the first
\* configuration
MergeEffect_IntoFirst(configs) ==
    IF configs = <<>> THEN configs ELSE [configs EXCEPT ![1] = merge(configs)]

\* The configurations after merge(...configs): the target of Object.assign is
\* a new object and the configurations are its sources, which it reads
MergeEffect(configs) == configs

\* StandardNoteMapping without `required: true`
StandardNoteMapping_Optional == <<
    Field("id", From(<<"note", ".", "noteId">>, "", Undefined, FALSE)),
    Field("title", From(<<"note", ".", "title">>, "", Undefined, FALSE)),
    Field("dateCreatedUtc", From(<<"note", ".", "utcDateCreated">>, "date", Undefined, FALSE)),
    Field("dateLastModifiedUtc",
          From(<<"note", ".", "utcDateModified">>, "date", Undefined, FALSE)) >>

StandardNoteMapping == <<
    Field("id", From(<<"note", ".", "noteId">>, "", Undefined, TRUE)),
    Field("title", From(<<"note", ".", "title">>, "", Undefined, TRUE)),
    Field("dateCreatedUtc", From(<<"note", ".", "utcDateCreated">>, "date", Undefined, TRUE)),
    Field("dateLastModifiedUtc",
          From(<<"note", ".", "utcDateModified">>, "date", Undefined, TRUE)) >>

----------------------------------------------------------------------------
(* searchAndMap *)

\* An error that is thrown: an Error object with a message, or any value
ErrorOf(message) == [value |-> Undefined, message |-> message, isError |-> TRUE]
ThrownValue(v) == [value |-> v, message |-> <<>>, isError |-> FALSE]
NoError == [value |-> Undefined, message |-> <<>>, isError |-> FALSE]

\* options.query is a string or a structured query
StringQuery(text) == [text |-> text, helpers |-> QUndefined, isString |-> TRUE]
StructuredQuery(helpers) == [text |-> <<>>, helpers |-> helpers, isString |-> FALSE]

Queries == {
    StringQuery(<<"#", "blog">>),
    StructuredQuery(QObj(<<Entry(<<"#", "blog">>, QBool(TRUE)),
                           Entry(<<"note", ".", "type">>, QStr(<<"text">>))>>)),
    StructuredQuery(QObj(<<Entry(<<"NOT">>, QObj(<<Entry(<<"value">>, QStr(<<"x">>))>>))>>)),
    StructuredQuery(QObj(<<Entry(<<"AND">>, QArr(<<
        QObj(<<Entry(<<"#", "blog">>, QBool(TRUE))>>),
        QObj(<<Entry(<<"NOT">>, QBool(TRUE))>>)>>))>>)) }

\* orderBy, orderDirection, limit and fastSearch of the options
SearchParams == {
    [orderBy |-> QUndefined, orderDirection |-> QUndefined, limit |-> QUndefined,
     fastSearch |-> QUndefined],
    [orderBy |-> QStr(<<"title">>), orderDirection |-> QStr(<<"desc">>),
     limit |-> QNum(10), fastSearch |-> QBool(FALSE)],
    [orderBy |-> QUndefined, orderDirection |-> QStr(<<"asc">>), limit |-> QNum(0),
     fastSearch |-> QBool(TRUE)] }

\* The fields a custom mapping of searchAndMap is made of
CustomFields == {
    Field("slug", Shorthand(<<"#", "slug">>)),
    Field("slug", From(<<"#", "slug">>, "", Undefined, TRUE)),
    Field("wordCount", From(<<"#", "wordCount">>, "number", Num(7), FALSE)),
    Field("title", From(<<"note", ".", "title">>, "", Str("Untitled"), TRUE)),
    Field("readTimeMinutes", Computed("readTime", Num(1))),
    Field("summary", Computed("throws", Str("No summary available"))) }

CustomMappings ==
    UNION {{cfg \in [1..k -> CustomFields] : DistinctKeys(cfg)} : k \in 0..MaxCustom}

Options == [mapping : CustomMappings, query : Queries, params : SearchParams]

\* What client.GET('/notes') resolves to: {data, error}
Response(error, hasResults, results) ==
    [error |-> error, hasResults |-> hasResults, results |-> results]

Responses ==
    {Response(Str("Unauthorized"), FALSE, <<>>),
     Response(Str(""), FALSE, <<>>),
     Response(Undefined, FALSE, <<>>)}
    \cup {Response(Undefined, TRUE, notes) :
            notes \in UNION {[1..k -> Notes] : k \in 0..MaxResults}}

\* The params array
SearchParamsOf(p) ==
    (IF QTruthy(p.orderBy)
     THEN <<(<<"orderBy:">> \o Stringify(p.orderBy))>>
          \o (IF QTruthy(p.orderDirection) THEN <<Stringify(p.orderDirection)>> ELSE <<>>)
     ELSE <<>>)
    \o (IF QTruthy(p.limit) THEN <<(<<"limit:">> \o Stringify(p.limit))>> ELSE <<>>)
    \o (IF QTruthy(p.fastSearch) THEN <<(<<"fastSearch">>)>> ELSE <<>>)

\* fullQuery
FullQuery(searchQuery, p) ==
    IF Len(SearchParamsOf(p)) > 0
    THEN searchQuery \o <<" ">> \o Join(SearchParamsOf(p), <<" ">>)
    ELSE searchQuery

\* searchQuery: the string given, or the structured query built
SearchQuery(query) ==
    IF query.isString THEN Returned(query.text) ELSE buildSearchQuery(query.helpers)

\* SendSearch sending the request a second time
SendSearch_Twice(sent, fullQuery) == Append(Append(sent, fullQuery), fullQuery)

\* client.GET('/notes', {params: {query: {search: fullQuery}}}) sends one request
SendSearch(sent, fullQuery) == Append(sent, fullQuery)

\* OrElse written with `value || fallback`
OrElse_Falsy(value, fallback) == IF ~Truthy(value) THEN fallback ELSE value

\* value ?? fallback
OrElse(value, fallback) == IF value = Undefined \/ value = Null THEN fallback ELSE value

MappingFailure(note, reason) ==
    [noteId |-> OrElse(note.noteId, Str("unknown")),
     note |-> note,
     reason |-> reason,
     noteTitle |-> OrElse(note.title, Str("Untitled"))]

\* CheckResponse taking a failed search for a search without results
CheckResponse_Lenient(resp) == [thrown |-> FALSE, error |-> NoError]

\* if (error) throw error; if (!data?.results) throw new Error(...)
CheckResponse(resp) ==
    IF Truthy(resp.error) THEN [thrown |-> TRUE, error |-> ThrownValue(resp.error)]
    ELSE IF ~resp.hasResults
         THEN [thrown |-> TRUE, error |-> ErrorOf(<<"No results returned from search">>)]
    ELSE [thrown |-> FALSE, error |-> NoError]

\* mappedData and failures, and the calls made for each note mapped
Collected == [calls |-> <<>>, data |-> <<>>, failures |-> <<>>]

\* MapResult with a catch block that records nothing
MapResult_DropFailures(acc, fullMapping, note) ==
    LET m == map(fullMapping, NoteArray(<<note>>))
        calls == acc.calls \o m.calls
    IN IF m.thrown THEN [acc EXCEPT !.calls = calls]
       ELSE IF Len(m.value) >= 1
            THEN [acc EXCEPT !.data = Append(@, m.value[1]), !.calls = calls]
       ELSE [acc EXCEPT !.failures =
                    Append(@, MappingFailure(note, <<"Mapping returned undefined">>)),
                        !.calls = calls]

\* One iteration of the loop over data.results.  What the model's functions
\* throw is an Error, so the reason of the catch block is err.message
MapResult(acc, fullMapping, note) ==
    LET Tried(m) ==
            IF m.thrown
            THEN [acc EXCEPT !.failures = Append(@, MappingFailure(note, m.error)),
                             !.calls = @ \o m.calls]
            ELSE IF Len(m.value) >= 1
                 THEN [acc EXCEPT !.data = Append(@, m.value[1]), !.calls = @ \o m.calls]
            ELSE [acc EXCEPT !.failures =
                        Append(@, MappingFailure(note, <<"Mapping returned undefined">>)),
                             !.calls = @ \o m.calls]
    IN Only({Tried(m) : m \in {map(fullMapping, NoteArray(<<note>>))}})

RECURSIVE MapResults(_, _, _, _)
MapResults(acc, fullMapping, results, i) ==
    IF i > Len(results) THEN acc
    ELSE Only({MapResults(next, fullMapping, results, i + 1) :
                  next \in {MapResult(acc, fullMapping, results[i])}})

Rejected(error) ==
    [thrown |-> TRUE, error |-> error, calls |-> <<>>, data |-> <<>>, failures |-> <<>>]
Resolved(acc) ==
    [thrown |-> FALSE,
     error |-> NoError,
     calls |-> acc.calls,
     data |-> acc.data,
     failures |-> acc.failures]

----------------------------------------------------------------------------
(* The mapper and its caller *)

NoArg == NoteArray(<<>>)
NoReturn == [value |-> <<>>, thrown |-> FALSE, error |-> <<>>, calls |-> <<>>]

NoOptions == [mapping |-> <<>>,
              query |-> StringQuery(<<>>),
              params |-> CHOOSE p \in SearchParams : TRUE]
NoResponse == Response(Undefined, FALSE, <<>>)
NoResult == Resolved(Collected)

ClientIdle ==
    /\ standard = StandardNoteMapping
    /\ cpc = "idle"
    /\ options = NoOptions
    /\ requests = <<>>
    /\ response = NoResponse
    /\ sret = NoResult

NoBuild == Returned(<<>>)

QueryIdle ==
    /\ qpc = "idle"
    /\ qarg = QUndefined
    /\ qret = NoBuild

MergeIdle ==
    /\ mpc = "idle"
    /\ marg = <<>>
    /\ mret = <<>>

NoTransform == [value |-> Undefined, transform |-> ""]

TransformIdle ==
    /\ tpc = "idle"
    /\ targ = NoTransform
    /\ tret = Returned(Undefined)

NoExtract == [note |-> CHOOSE note \in Notes : TRUE, path |-> <<>>]

ExtractIdle ==
    /\ xpc = "idle"
    /\ xarg = NoExtract
    /\ xret = Returned(Undefined)

\* new TriliumMapper(config)
Init ==
    /\ config \in Configs
    /\ pc = "idle"
    /\ arg = NoArg
    /\ ret = NoReturn
    /\ held = <<>>
    /\ ClientIdle
    /\ QueryIdle
    /\ MergeIdle
    /\ TransformIdle
    /\ ExtractIdle

Called(a) ==
    /\ pc = "idle"
    /\ arg' = a
    /\ ret' = map(config, a)
    /\ held' = NotesAfter(config, a, ret'.calls)
    /\ pc' = IF ret'.thrown THEN "thrown" ELSE "returned"
    /\ UNCHANGED <<config, clientVars, queryVars, mergeVars, transformVars, extractVars>>

\* mapper.map(note)
MapNote == \E note \in Notes : Called(OneNote(note))

\* mapper.map(notes)
MapNotes == \E notes \in NoteArrays : Called(NoteArray(notes))

\* The caller has taken the result, or caught the error, and goes on
Continue ==
    /\ pc \in {"returned", "thrown"}
    /\ pc' = "idle"
    /\ arg' = NoArg
    /\ ret' = NoReturn
    /\ held' = <<>>
    /\ UNCHANGED <<config, clientVars, queryVars, mergeVars, transformVars, extractVars>>

Next == MapNote \/ MapNotes \/ Continue

Spec == Init /\ [][Next]_vars

----------------------------------------------------------------------------
(* The client and the caller of searchAndMap *)

\* createTriliumClient(config)
InitClient ==
    /\ config = <<>>
    /\ pc = "idle"
    /\ arg = NoArg
    /\ ret = NoReturn
    /\ held = <<>>
    /\ ClientIdle
    /\ QueryIdle
    /\ MergeIdle
    /\ TransformIdle
    /\ ExtractIdle

\* client.searchAndMap(options), up to the await of client.GET
SearchAndMap ==
    /\ cpc = "idle"
    /\ \E o \in Options :
        /\ options' = o
        /\ \E searchQuery \in {SearchQuery(o.query)} :
              IF searchQuery.thrown
              THEN /\ cpc' = "rejected"
                   /\ sret' = Rejected(ErrorOf(searchQuery.error))
                   /\ requests' = requests
              ELSE /\ cpc' = "awaiting"
                   /\ sret' = sret
                   /\ requests' = SendSearch(requests, FullQuery(searchQuery.value, o.params))
        /\ UNCHANGED <<response, standard, mapperVars, queryVars, mergeVars,
                       transformVars, extractVars>>

\* client.GET has resolved: searchAndMap from `const {data, error}` to its end
SearchAnswered ==
    /\ cpc = "awaiting"
    /\ \E resp \in Responses :
        /\ response' = resp
        /\ \E checked \in {CheckResponse(resp)},
              fullMapping \in {merge(<<standard, options.mapping>>)},
              merged \in {MergeEffect(<<standard, options.mapping>>)} :
              IF checked.thrown
              THEN /\ cpc' = "rejected"
                   /\ sret' = Rejected(checked.error)
                   /\ UNCHANGED <<standard, options>>
              ELSE /\ cpc' = "resolved"
                   /\ sret' = Resolved(MapResults(Collected, fullMapping, resp.results, 1))
                   /\ standard' = merged[1]
                   /\ options' = [options EXCEPT !.mapping = merged[2]]
        /\ UNCHANGED <<requests, mapperVars, queryVars, mergeVars, transformVars,
                       extractVars>>

\* The caller has taken the result, or caught the rejection, and goes on
ClientContinue ==
    /\ cpc \in {"resolved", "rejected"}
    /\ cpc' = "idle"
    /\ standard' = standard
    /\ options' = NoOptions
    /\ requests' = <<>>
    /\ response' = NoResponse
    /\ sret' = NoResult
    /\ UNCHANGED <<mapperVars, queryVars, mergeVars, transformVars, extractVars>>

NextClient == SearchAndMap \/ SearchAnswered \/ ClientContinue

SpecClient == InitClient /\ [][NextClient]_vars

----------------------------------------------------------------------------
(* The structured queries handed to buildSearchQuery *)

\* {value} and {value, operator}
ConditionValue(value) == QObj(<<Entry(<<"value">>, value)>>)
ConditionValueWith(value, operator) ==
    QObj(<<Entry(<<"value">>, value), Entry(<<"operator">>, QStr(operator))>>)

\* Keys of a leaf map: labels, relations and note properties, simple and dotted
LeafKeys == {
    <<"#", "blog">>, <<"#", "template", ".", "title">>,
    <<"~", "author">>, <<"~", "author", ".", "title">>,
    <<"title">>, <<"note", ".", "title">> }

\* SearchValue | undefined, and null
LeafValues == {
    QBool(TRUE), QBool(FALSE), QStr(<<"John">>), QNum(5),
    ConditionValue(QStr(<<"John">>)), ConditionValueWith(QNum(5), <<">=">>),
    QUndefined, QNull }

DistinctEntries(entries) ==
    \A i, j \in 1..Len(entries) : entries[i].key = entries[j].key => i = j

\* Leaf maps: objects of up to MaxEntries conditions, no key twice
LeafMaps ==
    {QObj(entries) :
        entries \in UNION {{e \in [1..k -> [value : LeafValues, key : LeafKeys]] :
                               DistinctEntries(e)} : k \in 0..MaxEntries}}

Leaf(key, value) == QObj(<<Entry(key, value)>>)
AndNode(children) == QObj(<<Entry(<<"AND">>, QArr(children))>>)
OrNode(children) == QObj(<<Entry(<<"OR">>, QArr(children))>>)
NotNode(value) == QObj(<<Entry(<<"NOT">>, value)>>)

\* The nodes the AND and OR lists of the model are made of: leaf maps of no,
\* one and two conditions, a string value that holds " OR ", an AND list, an
\* OR list, a NOT node and a NOT node with a simple value
Children == {
    QObj(<<>>),
    Leaf(<<"#", "blog">>, QBool(TRUE)),
    QObj(<<Entry(<<"note", ".", "type">>, QStr(<<"text">>)),
           Entry(<<"#", "wordCount">>, ConditionValueWith(QNum(1000), <<">=">>))>>),
    Leaf(<<"#", "title">>, QStr(<<"a", " ", "OR", " ", "b">>)),
    AndNode(<<Leaf(<<"#", "a">>, QBool(TRUE)), Leaf(<<"#", "b">>, QBool(FALSE))>>),
    OrNode(<<Leaf(<<"#", "status">>, QStr(<<"published">>)),
             Leaf(<<"#", "status">>, QStr(<<"featured">>))>>),
    NotNode(Leaf(<<"#", "draft">>, QBool(TRUE))),
    NotNode(QBool(TRUE)) }

ChildLists == UNION {[1..k -> Children] : k \in 0..MaxChildren}

LogicalNodes == {AndNode(c) : c \in ChildLists} \cup {OrNode(c) : c \in ChildLists}

\* What NOT is given that is no query object
SimpleValues == {
    QBool(TRUE), QBool(FALSE), QStr(<<"x">>), QNum(5), QNull, QUndefined,
    ConditionValue(QStr(<<"x">>)), ConditionValueWith(QStr(<<"x">>), <<"=">>) }

NotNodes == {NotNode(v) : v \in Children \cup SimpleValues}

\* Objects with more than one of AND, OR, NOT and conditions, and the
\* "Complex nested conditions" query of the README
MixedNodes == {
    QObj(<<Entry(<<"AND">>, QArr(<<Leaf(<<"#", "a">>, QBool(TRUE))>>)),
           Entry(<<"OR">>, QArr(<<Leaf(<<"#", "b">>, QBool(TRUE)),
                                  Leaf(<<"#", "c">>, QBool(TRUE))>>))>>),
    QObj(<<Entry(<<"#", "blog">>, QBool(TRUE)),
           Entry(<<"OR">>, QArr(<<Leaf(<<"#", "b">>, QBool(TRUE)),
                                  Leaf(<<"#", "c">>, QBool(TRUE))>>))>>),
    QObj(<<Entry(<<"#", "blog">>, QBool(TRUE)),
           Entry(<<"NOT">>, Leaf(<<"#", "draft">>, QBool(TRUE)))>>),
    QObj(<<Entry(<<"NOT">>, Leaf(<<"#", "draft">>, QBool(TRUE))),
           Entry(<<"AND">>, QArr(<<Leaf(<<"#", "a">>, QBool(TRUE))>>))>>),
    QObj(<<Entry(<<"NOT">>, QUndefined), Entry(<<"#", "blog">>, QBool(TRUE)),
           Entry(<<"AND">>, QUndefined)>>),
    QObj(<<Entry(<<"#", "blog">>, QBool(TRUE)), Entry(<<"NOT">>, QBool(TRUE)),
           Entry(<<"AND">>, QArr(<<Leaf(<<"#", "a">>, QBool(TRUE))>>))>>),
    QObj(<<Entry(<<"NOT">>, Leaf(<<"#", "draft">>, QBool(TRUE))),
           Entry(<<"title">>, QStr(<<"John">>)),
           Entry(<<"OR">>, QArr(<<Leaf(<<"#", "b">>, QBool(TRUE)),
                                  Leaf(<<"#", "c">>, QBool(TRUE))>>))>>),
    AndNode(<<Leaf(<<"#", "blog">>, QBool(TRUE)),
              Leaf(<<"note", ".", "type">>, QStr(<<"text">>)),
              OrNode(<<Leaf(<<"#", "category">>, QStr(<<"tech">>)),
                       Leaf(<<"#", "category">>, QStr(<<"programming">>))>>),
              NotNode(Leaf(<<"#", "draft">>, QBool(TRUE)))>>) }

Helpers == LeafMaps \cup LogicalNodes \cup NotNodes \cup MixedNodes

----------------------------------------------------------------------------
(* buildSearchQuery and its caller *)

InitQuery ==
    /\ config = <<>>
    /\ pc = "idle"
    /\ arg = NoArg
    /\ ret = NoReturn
    /\ held = <<>>
    /\ ClientIdle
    /\ QueryIdle
    /\ MergeIdle
    /\ TransformIdle
    /\ ExtractIdle

\* buildSearchQuery(helpers)
BuildSearchQuery ==
    /\ qpc = "idle"
    /\ \E h \in Helpers :
          /\ qarg' = h
          /\ qret' = buildSearchQuery(h)
          /\ qpc' = IF qret'.thrown THEN "thrown" ELSE "returned"
    /\ UNCHANGED <<mapperVars, clientVars, mergeVars, transformVars, extractVars>>

\* The caller has taken the query, or caught the error, and goes on
QueryContinue ==
    /\ qpc \in {"returned", "thrown"}
    /\ qpc' = "idle"
    /\ qarg' = QUndefined
    /\ qret' = NoBuild
    /\ UNCHANGED <<mapperVars, clientVars, mergeVars, transformVars, extractVars>>

NextQuery == BuildSearchQuery \/ QueryContinue

SpecQuery == InitQuery /\ [][NextQuery]_vars

----------------------------------------------------------------------------
(* TriliumMapper.merge and its caller *)

\* The fields the configurations handed to merge are made of
MergeFields == {
    Field("slug", Shorthand(<<"#", "slug">>)),
    Field("slug", Shorthand(<<>>)),
    Field("title", From(<<"note", ".", "title">>, "", Str("Untitled"), TRUE)),
    Field("readTimeMinutes", Computed("readTime", Num(1))) }

\* The configurations handed to merge: StandardNoteMapping and custom ones
MergeConfigs ==
    {StandardNoteMapping}
    \cup UNION {{cfg \in [1..k -> MergeFields] : DistinctKeys(cfg)} : k \in 0..MaxCustom}

MergeArgs == UNION {[1..k -> MergeConfigs] : k \in 0..MaxConfigs}

InitMerge ==
    /\ config = <<>>
    /\ pc = "idle"
    /\ arg = NoArg
    /\ ret = NoReturn
    /\ held = <<>>
    /\ ClientIdle
    /\ QueryIdle
    /\ MergeIdle
    /\ TransformIdle
    /\ ExtractIdle

\* TriliumMapper.merge(...configs)
Merge ==
    /\ mpc = "idle"
    /\ \E cs \in MergeArgs :
          /\ marg' = cs
          /\ mret' = merge(cs)
    /\ mpc' = "returned"
    /\ UNCHANGED <<mapperVars, clientVars, queryVars, transformVars, extractVars>>

\* The caller has taken the merged configuration and goes on
MergeContinue ==
    /\ mpc = "returned"
    /\ mpc' = "idle"
    /\ marg' = <<>>
    /\ mret' = <<>>
    /\ UNCHANGED <<mapperVars, clientVars, queryVars, transformVars, extractVars>>

NextMerge == Merge \/ MergeContinue

SpecMerge == InitMerge /\ [][NextMerge]_vars

----------------------------------------------------------------------------
(* The built-in transforms and their caller *)

TransformNames == {"number", "boolean", "commaSeparated", "json", "date", "trim"}

\* The values handed to a transform: what an extraction gives (undefined,
\* null, a string) and what a caller's extractor may give
TransformValues ==
    {Undefined, Null, NaN, Num(0), Num(5), Bool(TRUE), Bool(FALSE)}
    \cup {Str(x) : x \in {"", "  ", "1000", "0", "1", "true", "yes", "no", "maybe",
                          "abc", "not a date", "{invalid}", "{\"a\":1}", "null",
                          "a,b", " a , ,b ", " hello ",
                          "2024-01-15T10:30:00.000Z"}}

\* Texts that hold a number and are none of the model's dates: new Date reads
\* a year alone, and what it makes of the others is left to the engine;
\* transforms.date is not called with them
EngineReadsDate(value) ==
    value.type \in {"number", "string"}
    /\ JSString(value) \in {"0", "1", "5", "1000", "{\"a\":1}"}

TransformCalls ==
    {c \in [value : TransformValues, transform : TransformNames] :
        ~(c.transform = "date" /\ EngineReadsDate(c.value))}

InitTransform ==
    /\ config = <<>>
    /\ pc = "idle"
    /\ arg = NoArg
    /\ ret = NoReturn
    /\ held = <<>>
    /\ ClientIdle
    /\ QueryIdle
    /\ MergeIdle
    /\ TransformIdle
    /\ ExtractIdle

\* transforms[name](value)
ApplyBuiltIn ==
    /\ tpc = "idle"
    /\ \E c \in TransformCalls :
          /\ targ' = c
          /\ tret' = CallTransform(c.transform, c.value)
          /\ tpc' = IF tret'.thrown THEN "thrown" ELSE "returned"
    /\ UNCHANGED <<mapperVars, clientVars, queryVars, mergeVars, extractVars>>

\* The caller has taken the value, or caught the error, and goes on
TransformContinue ==
    /\ tpc \in {"returned", "thrown"}
    /\ tpc' = "idle"
    /\ targ' = NoTransform
    /\ tret' = Returned(Undefined)
    /\ UNCHANGED <<mapperVars, clientVars, queryVars, mergeVars, extractVars>>

NextTransform == ApplyBuiltIn \/ TransformContinue

SpecTransform == InitTransform /\ [][NextTransform]_vars

----------------------------------------------------------------------------
(* extractValue and its caller *)

\* The paths handed to extractValue
ExtractPaths == {
    <<>>, <<"#">>, <<"~">>, <<"attributes">>, <<"note">>, <<"note", ".">>, <<"title">>, <<"slug">>,
    <<"#", "slug">>, <<"~", "slug">>, <<"#", "wordCount">>, <<"~", "wordCount">>,
    <<"#", "missing">>, <<"~", "missing">>,
    <<"note", ".", "noteId">>, <<"note", ".", "title">>,
    <<"note", ".", "utcDateCreated">>, <<"note", ".", "utcDateModified">>,
    <<"note", ".", "attributes">>, <<"note", ".", "missing">>,
    <<"note", ".", "missing", ".", "deep">>, <<"note", ".", "title", ".", "deep">>,
    <<"note", ".", "utcDateModified", ".", "deep", ".", "deeper">> }

InitExtract ==
    /\ config = <<>>
    /\ pc = "idle"
    /\ arg = NoArg
    /\ ret = NoReturn
    /\ held = <<>>
    /\ ClientIdle
    /\ QueryIdle
    /\ MergeIdle
    /\ TransformIdle
    /\ ExtractIdle

\* this.extractValue(note, path)
CallExtractValue ==
    /\ xpc = "idle"
    /\ \E note \in Notes, path \in ExtractPaths :
          /\ xarg' = [note |-> note, path |-> path]
          /\ xret' = ExtractValue(note, path)
          /\ xpc' = IF xret'.thrown THEN "thrown" ELSE "returned"
    /\ UNCHANGED <<mapperVars, clientVars, queryVars, mergeVars, transformVars>>

\* The caller has taken the value, or caught the error, and goes on
ExtractContinue ==
    /\ xpc \in {"returned", "thrown"}
    /\ xpc' = "idle"
    /\ xarg' = NoExtract
    /\ xret' = Returned(Undefined)
    /\ UNCHANGED <<mapperVars, clientVars, queryVars, mergeVars, transformVars>>

NextExtract == CallExtractValue \/ ExtractContinue

SpecExtract == InitExtract /\ [][NextExtract]_vars

----------------------------------------------------------------------------
(* The mapper's claims.  They are stated about a finished map() call: arg is *)
(* what was passed, ret what came back, config the mapper's configuration.   *)

Finished == pc \in {"returned", "thrown"}
SingleCall == Finished /\ ~arg.isArray
BatchCall == Finished /\ arg.isArray

\* The fields of a configuration that mapSingle treats as direct, as computed
DirectFields(cfg) == SelectSeq(cfg, LAMBDA f : ~Falsy(f.mapping) /\ ~IsComputed(f.mapping))
ComputedFields(cfg) == SelectSeq(cfg, LAMBDA f : ~Falsy(f.mapping) /\ IsComputed(f.mapping))

\* The calls of kind `what` among the calls of one mapped note
CallsOf(calls, what) == SelectSeq(calls, LAMBDA c : c.what = what)

\* What mapping one note alone gives
Alone(note) == map(config, OneNote(note))

\* The value of a direct field after extraction and transform, before the default
Transformed(mapping, note) ==
    LET raw == IF mapping.fromFn # "" THEN ApplyExtractor(mapping.fromFn, note)
               ELSE Returned(extractValue(note, mapping.from))
    IN IF raw.thrown \/ mapping.transform = "" THEN raw
       ELSE ApplyTransform(mapping.transform, raw.value, note)

\* The defined values that JavaScript holds to be false
FalsyDefined == {Null, Bool(FALSE), Num(0), Str("")}

\* The index in the sequence of fields `fields` of the field named key
IndexOf(fields, key) == CHOOSE j \in 1..Len(fields) : fields[j].key = key

\* What the computed field of call c stored, c being a call of mapping `note`
Stored(c, note) ==
    LET f == ComputedFields(config)[IndexOf(ComputedFields(config), c.key)]
    IN ApplyDefault(ApplyComputed(f.mapping.computed, c.partial, note).value, f.mapping)

C6_ComputedAfterDirect ==
    \A e \in 1..Len(ret.calls) :
        LET calls == ret.calls[e]
            direct == DirectFields(config)
            note == arg.notes[e]
        IN /\ \A i, j \in 1..Len(calls) :
                i < j => ~(calls[i].what = "computed" /\ calls[j].what = "direct")
           /\ \A i \in 1..Len(calls) : calls[i].what = "computed" =>
                \A d \in 1..Len(direct) :
                    LET m == direct[d].mapping
                        v == Transformed(m, note).value
                    IN /\ HasKey(calls[i].partial, direct[d].key)
                       /\ Get(calls[i].partial, direct[d].key) =
                            (IF v = Undefined /\ m.default # Undefined THEN m.default ELSE v)

\* A computed field declared before a direct field was resolved
C6_Witness ==
    /\ SingleCall
    /\ Len(config) = 2
    /\ IsComputed(config[1].mapping)
    /\ ~Falsy(config[2].mapping) /\ ~IsComputed(config[2].mapping)
    /\ CallsOf(ret.calls[1], "computed") # <<>>
    /\ Get(CallsOf(ret.calls[1], "computed")[1].partial, config[2].key) # Undefined

\* The smallest number of a non-empty set of numbers
Least(S) == CHOOSE i \in S : \A j \in S : i <= j

\* C7: a required direct field whose value is still undefined after transform
\* and default makes map(note) throw "Required field '<field>' missing from
\* note <id> (<title>)" and return nothing; a required field whose value is
\* defined raises no such error.
C7_RequiredFieldThrows ==
    SingleCall =>
        LET note == arg.notes[1]
            direct == DirectFields(config)
            T(i) == Transformed(direct[i].mapping, note)
            Value(i) == IF T(i).value = Undefined /\ direct[i].mapping.default # Undefined
                        THEN direct[i].mapping.default ELSE T(i).value
            Missing(i) == ~T(i).thrown /\ direct[i].mapping.required /\ Value(i) = Undefined
            stops == {i \in 1..Len(direct) : T(i).thrown \/ Missing(i)}
        IN /\ (stops # {} /\ Missing(Least(stops))) =>
                /\ pc = "thrown"
                /\ ret.error = <<"Required field '", direct[Least(stops)].key,
                                 "' missing from note ", JSString(note.noteId),
                                 " (", JSString(note.title), ")">>
                /\ ret.value = <<>>
           /\ (pc = "thrown" /\ ret.error[1] = "Required field '") =>
                \E i \in 1..Len(direct) : direct[i].key = ret.error[2] /\ Missing(i)

\* map(note) threw the required-field error for a note without title
C7_Witness ==
    /\ SingleCall
    /\ pc = "thrown"
    /\ ret.error[1] = "Required field '"
    /\ arg.notes[1].title = Undefined
    /\ ret.error[4] = arg.notes[1].noteId.s
    /\ ret.error[6] = "undefined"

\* C8: a direct field holds its default exactly when its transformed value is
\* undefined and a default is configured, and a computed field exactly when
\* its function returned undefined; a value that is defined (null, false, 0
\* and '' included) is stored as it is.
C8_DefaultOnlyForUndefined ==
    (SingleCall /\ pc = "returned") =>
        LET note == arg.notes[1]
            result == ret.value[1]
            direct == DirectFields(config)
            comp == ComputedFields(config)
            calls == CallsOf(ret.calls[1], "computed")
        IN /\ \A d \in 1..Len(direct) :
                LET v == Transformed(direct[d].mapping, note).value
                    default == direct[d].mapping.default
                IN Get(result, direct[d].key) =
                      (IF v = Undefined /\ default # Undefined THEN default ELSE v)
           /\ \A i \in 1..Len(comp) :
                LET v == ApplyComputed(comp[i].mapping.computed, calls[i].partial, note).value
                    default == comp[i].mapping.default
                IN Get(result, comp[i].key) =
                      (IF v = Undefined /\ default # Undefined THEN default ELSE v)

\* A direct field and a computed field both kept a defined falsy value
\* although each has another default
C8_Witness ==
    /\ SingleCall /\ pc = "returned"
    /\ \E d \in 1..Len(config) :
         /\ ~Falsy(config[d].mapping) /\ ~IsComputed(config[d].mapping)
         /\ config[d].mapping.default # Undefined
         /\ Get(ret.value[1], config[d].key) \in FalsyDefined
         /\ Get(ret.value[1], config[d].key) # config[d].mapping.default
    /\ \E c \in 1..Len(config) :
         /\ IsComputed(config[c].mapping)
         /\ config[c].mapping.default # Undefined
         /\ Get(ret.value[1], config[c].key) \in FalsyDefined
         /\ Get(ret.value[1], config[c].key) # config[c].mapping.default

\* Was the direct field named key reached when the e-th note was mapped?
Reached(e, key) ==
    \E c \in 1..Len(ret.calls[e]) :
        ret.calls[e][c].what = "direct" /\ ret.calls[e][c].key = key

\* C24: the steps of a direct field run in the order extract, transform,
\* default, required check: a required field with a default never raises the
\* required-field error, and a required field without default that is
\* reached, whose attribute is there and whose transform returns undefined,
\* raises it.
C24_ExtractTransformDefaultRequired ==
    SingleCall =>
        LET note == arg.notes[1]
            direct == DirectFields(config)
        IN \A d \in 1..Len(direct) :
            LET m == direct[d].mapping
                required == RequiredMessage(direct[d].key, note)
            IN /\ (m.required /\ m.default # Undefined) =>
                    ~(pc = "thrown" /\ ret.error = required)
               /\ ( /\ m.required /\ m.default = Undefined
                    /\ m.fromFn = "" /\ m.transform # ""
                    /\ extractValue(note, m.from) # Undefined
                    /\ ApplyTransform(m.transform, extractValue(note, m.from), note)
                         = Returned(Undefined)
                    /\ Reached(1, direct[d].key) ) =>
                    (pc = "thrown" /\ ret.error = required)

\* A required number without default was read from the label wordCount=abc
C24_Witness ==
    /\ SingleCall
    /\ pc = "thrown"
    /\ \E d \in 1..Len(config) :
         /\ config[d].mapping = From(<<"#", "wordCount">>, "number", Undefined, TRUE)
         /\ extractValue(arg.notes[1], <<"#", "wordCount">>) = Str("abc")
         /\ ret.error = RequiredMessage(config[d].key, arg.notes[1])

\* Did the mapping of the e-th note of the call throw the required-field error?
ThrewRequired(e) ==
    /\ pc = "thrown"
    /\ e = Len(ret.calls)
    /\ ret.error[1] = "Required field '"

\* The value of a direct field after extraction, transform and default
Final(mapping, note) == ApplyDefault(Transformed(mapping, note).value, mapping)

\* C28: when the mapping of a note throws the required-field error, no
\* computed function was invoked for the note, the direct fields resolved
\* are those declared up to the failing one, and the field the error names
\* is the first required field, in the order of the configuration's keys,
\* whose value after transform and default is undefined.
C28_RequiredErrorStopsMapping ==
    \A e \in 1..Len(ret.calls) : ThrewRequired(e) =>
        LET calls == ret.calls[e]
            note == arg.notes[e]
            direct == DirectFields(config)
            last == Len(calls)
        IN /\ CallsOf(calls, "computed") = <<>>
           /\ last >= 1 /\ last <= Len(direct)
           /\ \A i \in 1..last : calls[i].key = direct[i].key
           /\ ret.error = RequiredMessage(direct[last].key, note)
           /\ direct[last].mapping.required
           /\ Final(direct[last].mapping, note) = Undefined
           /\ \A i \in 1..(last - 1) :
                ~(direct[i].mapping.required /\ Final(direct[i].mapping, note) = Undefined)

\* The second field of a configuration that starts with a computed field
\* raised the required-field error
C28_Witness ==
    /\ SingleCall
    /\ ThrewRequired(1)
    /\ Len(config) = 2
    /\ IsComputed(config[1].mapping)
    /\ ret.error[2] = config[2].key
    /\ ret.calls[1] = <<Call("direct", config[2].key, <<>>)>>

\* C9: when no element of the array fails alone, map(notes) returns an array
\* as long as the input whose i-th element is map(notes[i]).
C9_BatchIsElementwise ==
    (BatchCall /\ \A i \in 1..Len(arg.notes) : ~Alone(arg.notes[i]).thrown) =>
        /\ pc = "returned"
        /\ Len(ret.value) = Len(arg.notes)
        /\ \A i \in 1..Len(arg.notes) : ret.value[i] = Alone(arg.notes[i]).value[1]

\* An array of two notes was mapped to two different objects
C9_Witness ==
    /\ BatchCall /\ pc = "returned"
    /\ Len(arg.notes) = 2
    /\ Len(ret.value) = 2
    /\ ret.value[1] # ret.value[2]

\* C10: when element i is the first whose mapping throws, map(notes) throws
\* that error, returns no array, and has mapped the elements up to i only.
C10_BatchThrowPropagates ==
    BatchCall =>
        LET failing == {i \in 1..Len(arg.notes) : Alone(arg.notes[i]).thrown}
        IN failing # {} =>
             /\ pc = "thrown"
             /\ ret.error = Alone(arg.notes[Least(failing)]).error
             /\ ret.value = <<>>
             /\ Len(ret.calls) = Least(failing)

\* The first of two notes failed, and the second, which maps alone, was not mapped
C10_Witness ==
    /\ BatchCall /\ pc = "thrown"
    /\ Len(arg.notes) = 2
    /\ Alone(arg.notes[1]).thrown
    /\ ~Alone(arg.notes[2]).thrown
    /\ Len(ret.calls) = 1

----------------------------------------------------------------------------
(* The claims about searchAndMap.  They are stated about an invocation that *)
(* has settled: options is what was passed, response what the transport     *)
(* answered, sret what the invocation resolved to or was rejected with.     *)

Settled == cpc \in {"resolved", "rejected"}

\* The configuration searchAndMap maps with
FullMapping == merge(<<StandardNoteMapping, options.mapping>>)

\* Does mapping this note with the full mapping throw?
Fails(note) == mapSingle(FullMapping, note).thrown

\* The result notes that map, and those that do not, in result order
Mappable == SelectSeq(response.results, LAMBDA n : ~Fails(n))
Unmappable == SelectSeq(response.results, LAMBDA n : Fails(n))

\* C1: when the search succeeds with N notes, data and failures have N
\* entries together; data holds the objects of the notes that map and
\* failures the notes that do not, both in result order.
C1_EveryNoteOnce ==
    cpc = "resolved" =>
        /\ Len(sret.data) + Len(sret.failures) = Len(response.results)
        /\ Len(sret.data) = Len(Mappable)
        /\ \A i \in 1..Len(Mappable) :
              sret.data[i] = mapSingle(FullMapping, Mappable[i]).value
        /\ Len(sret.failures) = Len(Unmappable)
        /\ \A i \in 1..Len(Unmappable) : sret.failures[i].note = Unmappable[i]

\* Of two result notes one was mapped and the other failed
C1_Witness ==
    /\ cpc = "resolved"
    /\ Len(response.results) = 2
    /\ Len(sret.data) = 1
    /\ Len(sret.failures) = 1

\* C2: a note whose mapping throws does not end the batch: it gives one
\* failure with the note's id (or 'unknown'), its title (or 'Untitled'), the
\* message of the error and the note itself, and every result note is mapped.
C2_FailureRecorded ==
    cpc = "resolved" =>
        /\ Len(sret.calls) = Len(response.results)
        /\ Len(sret.failures) = Len(Unmappable)
        /\ \A i \in 1..Len(Unmappable) :
              LET note == Unmappable[i]
              IN sret.failures[i] =
                    [noteId |-> IF note.noteId \in {Undefined, Null}
                                THEN Str("unknown") ELSE note.noteId,
                     note |-> note,
                     reason |-> mapSingle(FullMapping, note).error,
                     noteTitle |-> IF note.title \in {Undefined, Null}
                                   THEN Str("Untitled") ELSE note.title]

\* The first of two notes has no id and failed as 'unknown'; the second was mapped
C2_Witness ==
    /\ cpc = "resolved"
    /\ Len(response.results) = 2
    /\ Len(sret.failures) = 1
    /\ sret.failures[1].note = response.results[1]
    /\ response.results[1].noteId = Undefined
    /\ sret.failures[1].noteId = Str("unknown")
    /\ sret.failures[1].reason[1] = "Required field '"
    /\ Len(sret.data) = 1

\* The request was sent and the transport has answered
Answered == Settled /\ Len(requests) >= 1

\* C3: when the transport answers with an error, or without a results list,
\* searchAndMap is rejected; it gives no data and no failures and maps nothing.
C3_TransportErrorRejects ==
    (Answered /\ (Truthy(response.error) \/ ~response.hasResults)) =>
        /\ cpc = "rejected"
        /\ sret.thrown
        /\ sret.error = IF Truthy(response.error) THEN ThrownValue(response.error)
                        ELSE ErrorOf(<<"No results returned from search">>)
        /\ sret.data = <<>>
        /\ sret.failures = <<>>
        /\ sret.calls = <<>>

\* searchAndMap was rejected with the error of the transport
C3_Witness ==
    /\ cpc = "rejected"
    /\ Len(requests) = 1
    /\ response.error = Str("Unauthorized")
    /\ sret.error = ThrownValue(Str("Unauthorized"))

\* C4: an invocation sends no request when building the structured query
\* throws and one request otherwise, whatever the transport answers and
\* however many notes fail to map.
C4_OneRequest ==
    /\ Len(requests) <= 1
    /\ cpc = "idle" => requests = <<>>
    /\ cpc = "awaiting" => Len(requests) = 1
    /\ Settled =>
         Len(requests) = (IF ~options.query.isString
                             /\ buildSearchQuery(options.query.helpers).thrown
                          THEN 0 ELSE 1)

\* The structured query had an invalid NOT and no request was sent
C4_Witness ==
    /\ cpc = "rejected"
    /\ ~options.query.isString
    /\ sret.error = ErrorOf(NotMessage)
    /\ requests = <<>>

----------------------------------------------------------------------------
(* The claims about TriliumMapper.merge.  They are stated about a merge()   *)
(* call that has returned: marg is what was passed, mret what came back.    *)

\* The keys of a configuration
KeysOf(cfg) == {cfg[i].key : i \in 1..Len(cfg)}

\* cfg[key] of a configuration that has the key
MappingOf(cfg, key) == cfg[CHOOSE i \in 1..Len(cfg) : cfg[i].key = key].mapping

\* The last of the merged configurations that has the key
LastWith(key) ==
    CHOOSE c \in 1..Len(marg) :
        /\ key \in KeysOf(marg[c])
        /\ \A d \in (c + 1)..Len(marg) : key \notin KeysOf(marg[d])

\* C11: the merged configuration has the keys of all the configurations, each
\* once; the mapping of a key is, whole, the mapping the last configuration
\* with that key gives it, so a key of one configuration only keeps its mapping.
C11_MergeLastWriterWins ==
    mpc = "returned" =>
        /\ KeysOf(mret) = UNION {KeysOf(marg[c]) : c \in 1..Len(marg)}
        /\ DistinctKeys(mret)
        /\ \A key \in KeysOf(mret) :
              MappingOf(mret, key) = MappingOf(marg[LastWith(key)], key)
        /\ \A c \in 1..Len(marg) : \A key \in KeysOf(marg[c]) :
              (\A d \in 1..Len(marg) : d # c => key \notin KeysOf(marg[d]))
                  => MappingOf(mret, key) = MappingOf(marg[c], key)

\* StandardNoteMapping was merged with a configuration that maps title in
\* another way and with one that adds slug: title is the later mapping, with
\* its default and without the transform-free required form of the first
C11_Witness ==
    /\ mpc = "returned"
    /\ Len(marg) = 3
    /\ marg[1] = StandardNoteMapping
    /\ KeysOf(marg[2]) = {"title"}
    /\ KeysOf(marg[3]) = {"slug"}
    /\ MappingOf(marg[2], "title") # MappingOf(marg[1], "title")
    /\ MappingOf(mret, "title") = MappingOf(marg[2], "title")
    /\ MappingOf(mret, "id") = MappingOf(StandardNoteMapping, "id")
    /\ MappingOf(mret, "slug") = MappingOf(marg[3], "slug")

----------------------------------------------------------------------------
(* The claims about buildSearchQuery.  They are stated about a call that    *)
(* has returned or thrown: qarg is what was passed, qret what came back.    *)

Built == qpc \in {"returned", "thrown"}

\* The node of the call has an AND list, has an OR list and no AND list, has
\* a NOT value and no list, or is a leaf map
AndCall == Built /\ Prop(qarg, <<"AND">>).t = "array"
OrCall == Built /\ ~AndCall /\ Prop(qarg, <<"OR">>).t = "array"
NotCall == Built /\ ~AndCall /\ ~OrCall /\ Prop(qarg, <<"NOT">>) # QUndefined
LeafCall == Built /\ ~AndCall /\ ~OrCall /\ ~NotCall

\* C12: on a node with a NOT value, a value that is a nested condition node
\* (an object without a value field) gives "not(" + the build of the value +
\* ")", an error of that build being passed on; a boolean, string, number,
\* null or {value, operator} pair makes buildSearchQuery throw "NOT operator
\* requires a query object, not a simple value".
C12_NotNeedsQueryObject ==
    NotCall =>
        LET notValue == Prop(qarg, <<"NOT">>)
            inner == buildSearchQuery(notValue)
        IN IF notValue.t = "object" /\ ~In(<<"value">>, notValue)
           THEN IF inner.thrown THEN qret = inner
                ELSE qret = Returned(<<"not", "(">> \o inner.value \o <<")">>)
           ELSE /\ qpc = "thrown"
                /\ qret.error =
                     <<"NOT operator requires a query object, not a simple value">>

\* NOT was given {value: 'x'} and the build threw
C12_Witness ==
    /\ qpc = "thrown"
    /\ qarg = NotNode(ConditionValue(QStr(<<"x">>)))
    /\ qret.error = NotMessage

\* A value a leaf entry renders: a boolean, string, number or {value, operator}
Rendered(value) == value # QUndefined /\ value # QNull

\* What building the one entry alone gives
Clause(entry) == buildSearchQuery(QObj(<<entry>>)).value

\* The node with the one key of the node of the call
Alone_(key) == QObj(<<Entry(key, Prop(qarg, key))>>)

\* The keys of the node of the call other than the given ones
OtherKeys(keys) ==
    {i \in 1..Len(qarg.entries) : qarg.entries[i].key \notin keys}

\* C27: a node with an AND list builds to what its AND list alone builds to,
\* whatever OR, NOT or leaf keys it has; a node with an OR list and no AND
\* list to what its OR list alone builds to; a node with a NOT value and no
\* list to what its NOT value alone builds to.
C27_CombinatorPriority ==
    /\ AndCall => qret = buildSearchQuery(Alone_(<<"AND">>))
    /\ OrCall => qret = buildSearchQuery(Alone_(<<"OR">>))
    /\ NotCall => qret = buildSearchQuery(Alone_(<<"NOT">>))

\* A node with a label, a NOT value that is no query object and an AND list
\* built to its AND list
C27_Witness ==
    /\ AndCall
    /\ qpc = "returned"
    /\ Prop(qarg, <<"NOT">>) = QBool(TRUE)
    /\ OtherKeys({<<"AND">>, <<"OR">>, <<"NOT">>}) # {}
    /\ qret = buildSearchQuery(Alone_(<<"AND">>))
    /\ qret.value = <<"#", "a">>

\* C13 (as stated): a leaf map of N entries, none undefined or null, builds to
\* N clauses, one for each entry, joined by " AND " in the order of the entries.
C13_OneClausePerEntry ==
    (LeafCall /\ \A i \in 1..Len(qarg.entries) : Rendered(qarg.entries[i].value)) =>
        /\ \A i \in 1..Len(qarg.entries) : Clause(qarg.entries[i]) # <<>>
        /\ qret.value =
             Join([i \in 1..Len(qarg.entries) |-> Clause(qarg.entries[i])], AND_)

\* buildSearchQuery({'~author': true}) returned the empty string
C13_Witness ==
    /\ qpc = "returned"
    /\ qarg = Leaf(<<"~", "author">>, QBool(TRUE))
    /\ qret.value = <<>>

\* The builds of the children of the AND or OR list of the call
ChildBuilds(op) ==
    [i \in 1..Len(Prop(qarg, <<op>>).entries) |->
        buildSearchQuery(Prop(qarg, <<op>>).entries[i].value)]

\* Each build as the list joins it: in parentheses if it holds one of `within`
Grouped(builds, within) ==
    [i \in 1..Len(builds) |->
        IF \E w \in within : Includes(builds[i].value, <<" ", w, " ">>)
        THEN <<"(">> \o builds[i].value \o <<")">>
        ELSE builds[i].value]

\* C14: an AND list whose children all build gives their builds joined by
\* " AND " in order, a child in parentheses exactly when its build holds
\* " OR "; an OR list gives them joined by " OR ", a child in parentheses
\* exactly when its build holds " AND " or " OR ".
C14_ParenthesizeMixedChildren ==
    /\ (AndCall /\ \A i \in 1..Len(ChildBuilds("AND")) : ~ChildBuilds("AND")[i].thrown) =>
          qret = Returned(Join(Grouped(ChildBuilds("AND"), {"OR"}), <<" ", "AND", " ">>))
    /\ (OrCall /\ \A i \in 1..Len(ChildBuilds("OR")) : ~ChildBuilds("OR")[i].thrown) =>
          qret = Returned(Join(Grouped(ChildBuilds("OR"), {"AND", "OR"}), <<" ", "OR", " ">>))

\* An OR list of a two-condition leaf map and a label: the first in
\* parentheses, the second not
C14_Witness ==
    /\ qpc = "returned"
    /\ OrCall
    /\ Len(ChildBuilds("OR")) = 2
    /\ Includes(ChildBuilds("OR")[1].value, AND_)
    /\ ChildBuilds("OR")[2].value = <<"#", "blog">>
    /\ qret.value = <<"(">> \o ChildBuilds("OR")[1].value \o <<")", " ", "OR", " ", "#", "blog">>

\* C15: a map of one label with a simple name x builds to "#x" when the value
\* is true and to "#!x" when it is false, with nothing after the name.
C15_BooleanLabel ==
    (Built /\ Len(qarg.entries) = 1) =>
        LET key == qarg.entries[1].key
            value == qarg.entries[1].value
        IN (Len(key) = 2 /\ key[1] = "#" /\ value.t = "boolean") =>
              qret = Returned(IF value.n = 1 THEN <<"#", key[2]>> ELSE <<"#", "!", key[2]>>)

\* buildSearchQuery({'#blog': false}) returned "#!blog"
C15_Witness ==
    /\ qpc = "returned"
    /\ qarg = Leaf(<<"#", "blog">>, QBool(FALSE))
    /\ qret.value = <<"#", "!", "blog">>

\* The leaf map without its undefined and null entries
Defined(helpers) == QObj(SelectSeq(helpers.entries, LAMBDA e : Rendered(e.value)))

\* C16: a leaf map builds to what the map without its undefined and null
\* entries builds to, and to the empty string when no entry is left.
C16_UndefinedAndNullSkipped ==
    LeafCall =>
        /\ qret = buildSearchQuery(Defined(qarg))
        /\ Defined(qarg).entries = <<>> => qret = Returned(<<>>)

\* A map of a null entry and a rendered entry built to the clause of the second
C16_Witness ==
    /\ qpc = "returned"
    /\ Len(qarg.entries) = 2
    /\ qarg.entries[1].value = QNull
    /\ qarg.entries[2] = Entry(<<"title">>, QStr(<<"John">>))
    /\ qret.value = <<"note", ".", "title", " ", "=", " ", "'", "John", "'">>

\* The call was given a leaf map of one entry: its key and its value
OneEntry == LeafCall /\ Len(qarg.entries) = 1
TheKey == qarg.entries[1].key
TheValue == qarg.entries[1].value

\* The kind of a key, and whether the name after # or ~ has a dot
IsLabel(key) == key # <<>> /\ key[1] = "#"
IsRelation(key) == key # <<>> /\ key[1] = "~"
IsNoteProperty(key) == ~IsLabel(key) /\ ~IsRelation(key)
IsDotted(key) == \E i \in 2..Len(key) : key[i] = "."

\* A {value} or {value, operator} pair, and whether it gives an operator
IsPair(value) == value.t = "object" /\ \E i \in 1..Len(value.entries) :
                    value.entries[i].key = <<"value">>
GivesOperator(value) == Prop(value, <<"operator">>).t = "string"

\* The left-hand side of the clause of a key
Lhs(key) ==
    IF IsNoteProperty(key) /\ ~StartsWith(key, <<"note", ".">>)
    THEN <<"note", ".">> \o key ELSE key

\* A compared value as a clause shows it: a string in single quotes, a number
\* or boolean as it is
Shown(value) ==
    CASE value.t = "string" -> <<"'">> \o value.s \o <<"'">>
      [] value.t = "number" -> <<ToString(value.n)>>
      [] value.t = "boolean" -> IF value.n = 1 THEN <<"true">> ELSE <<"false">>

ClauseOf(lhs, operator, value) == lhs \o <<" ">> \o operator \o <<" ">> \o Shown(value)

\* C17: a relation with a simple name renders a string, and a {value} pair
\* without operator, with "*=*"; a label or note property renders a {value}
\* pair without operator with "="; an operator that is given is the operator
\* of the clause, whatever the key.
C17_DefaultOperators ==
    OneEntry =>
        /\ (IsRelation(TheKey) /\ ~IsDotted(TheKey) /\ TheValue.t = "string") =>
              qret = Returned(ClauseOf(TheKey, <<"*=*">>, TheValue))
        /\ (IsRelation(TheKey) /\ ~IsDotted(TheKey) /\ IsPair(TheValue)
            /\ ~GivesOperator(TheValue)) =>
              qret = Returned(ClauseOf(TheKey, <<"*=*">>, Prop(TheValue, <<"value">>)))
        /\ (~IsRelation(TheKey) /\ IsPair(TheValue) /\ ~GivesOperator(TheValue)) =>
              qret = Returned(ClauseOf(Lhs(TheKey), <<"=">>, Prop(TheValue, <<"value">>)))
        /\ (IsPair(TheValue) /\ GivesOperator(TheValue)) =>
              qret = Returned(ClauseOf(Lhs(TheKey), Prop(TheValue, <<"operator">>).s,
                                       Prop(TheValue, <<"value">>)))

\* buildSearchQuery({'~author': {value: 'John'}}) returned "~author *=* 'John'"
C17_Witness ==
    /\ qpc = "returned"
    /\ qarg = Leaf(<<"~", "author">>, ConditionValue(QStr(<<"John">>)))
    /\ qret.value = <<"~", "author", " ", "*=*", " ", "'", "John", "'">>

\* The key of the same kind whose name is the part before the first dot
SimpleKey(key) == <<key[1], key[2]>>

\* C18 (as stated): a label or relation with a dotted name builds to what the
\* key with a simple name builds to for the same value, with the dotted key
\* in the place of the simple one.
C18_DottedLikeSimple ==
    (OneEntry /\ ~IsNoteProperty(TheKey) /\ IsDotted(TheKey) /\ Rendered(TheValue)) =>
        LET simple == Clause(Entry(SimpleKey(TheKey), TheValue))
        IN qret.value =
             IF simple = <<>> THEN <<>>
             ELSE IF SubSeq(simple, 1, 2) = <<"#", "!">>
                  THEN <<"#", "!">> \o Tail(TheKey) \o SubSeq(simple, 4, Len(simple))
             ELSE TheKey \o SubSeq(simple, 3, Len(simple))

\* C18 (amended): a label or relation with a dotted name builds to the dotted
\* key, an operator and the value, for every value: the operator is the one a
\* pair gives and "=" otherwise, for a relation too; a string is quoted, a
\* number or boolean is not, and a boolean is compared like a number, not
\* rendered as presence or absence.
C18_DottedRendersWithEquals ==
    (OneEntry /\ ~IsNoteProperty(TheKey) /\ IsDotted(TheKey) /\ Rendered(TheValue)) =>
        qret = Returned(
            IF IsPair(TheValue)
            THEN ClauseOf(TheKey,
                          IF GivesOperator(TheValue)
                          THEN Prop(TheValue, <<"operator">>).s ELSE <<"=">>,
                          Prop(TheValue, <<"value">>))
            ELSE ClauseOf(TheKey, <<"=">>, TheValue))

\* buildSearchQuery({'~author.title': 'John'}) returned "~author.title = 'John'"
C18_Witness ==
    /\ qpc = "returned"
    /\ qarg = Leaf(<<"~", "author", ".", "title">>, QStr(<<"John">>))
    /\ qret.value = <<"~", "author", ".", "title", " ", "=", " ", "'", "John", "'">>

\* A string, number or boolean given as it is, without a {value} pair
IsPlain(value) == value.t \in {"string", "number", "boolean"}

\* C23: for a label or relation key with a dotted name, a value given without
\* an operator renders with "=": a string as <key> = '<value>', a number or
\* boolean as <key> = <value> without quotes, and the value of a {value} pair
\* that names no operator in the same way.
C23_DottedDefaultsToEquals ==
    (OneEntry /\ ~IsNoteProperty(TheKey) /\ IsDotted(TheKey)) =>
        /\ IsPlain(TheValue) =>
              /\ qpc = "returned"
              /\ qret.value = TheKey \o <<" ", "=", " ">> \o Shown(TheValue)
        /\ (IsPair(TheValue) /\ ~GivesOperator(TheValue)) =>
              /\ qpc = "returned"
              /\ qret.value = TheKey \o <<" ", "=", " ">>
                                \o Shown(Prop(TheValue, <<"value">>))

\* buildSearchQuery({'#template.title': true}) returned "#template.title = true"
C23_Witness ==
    /\ qpc = "returned"
    /\ qarg = Leaf(<<"#", "template", ".", "title">>, QBool(TRUE))
    /\ qret.value = <<"#", "template", ".", "title", " ", "=", " ", "true">>

\* C19: the clause of a key that starts with neither # nor ~ starts with the
\* key when the key starts with "note." and with "note." and the key
\* otherwise, and the map with the key builds to what the map with "note."
\* before the key builds to.
C19_NotePrefixOnce ==
    (OneEntry /\ IsNoteProperty(TheKey)) =>
        /\ Rendered(TheValue) =>
              /\ SubSeq(qret.value, 1, Len(Lhs(TheKey)) + 1) = Lhs(TheKey) \o <<" ">>
              /\ StartsWith(TheKey, <<"note", ".">>) => Lhs(TheKey) = TheKey
        /\ ~StartsWith(TheKey, <<"note", ".">>) =>
              qret = buildSearchQuery(Leaf(<<"note", ".">> \o TheKey, TheValue))

\* buildSearchQuery({title: 5}) returned "note.title = 5"
C19_Witness ==
    /\ qpc = "returned"
    /\ qarg = Leaf(<<"title">>, QNum(5))
    /\ qret.value = <<"note", ".", "title", " ", "=", " ", "5">>

----------------------------------------------------------------------------
(* The claim about the standard fields of searchAndMap *)

StandardKeys == <<"id", "title", "dateCreatedUtc", "dateLastModifiedUtc">>

\* The standard keys the custom mapping of the invocation leaves alone
KeptKeys == {StandardKeys[j] : j \in 1..Len(StandardKeys)} \ KeysOf(options.mapping)

\* A date string that new Date() reads
Parseable(value) == value.type = "string" /\ value.s \in DOMAIN DateStrings

\* A note without noteId, without title, or without a date that can be read
Lacking(note) ==
    \/ note.noteId = Undefined
    \/ note.title = Undefined
    \/ ~Parseable(note.utcDateCreated)
    \/ ~Parseable(note.utcDateModified)

\* C20: every object of data starts with the four standard fields, in the
\* order of StandardNoteMapping, whatever the custom mapping adds; a standard
\* field the custom mapping does not redefine is never undefined; and when the
\* custom mapping redefines none, the result notes that lack noteId, title or
\* a readable date are all in failures, in result order, and data has no more
\* objects than there are other notes.
C20_StandardFieldsMapped ==
    cpc = "resolved" =>
        /\ \A i \in 1..Len(sret.data) :
              /\ \A j \in 1..Len(StandardKeys) : sret.data[i][j].key = StandardKeys[j]
              /\ \A key \in KeptKeys : Get(sret.data[i], key) # Undefined
        /\ Cardinality(KeptKeys) = Len(StandardKeys) =>
              LET lacking == SelectSeq(response.results, Lacking)
                  failed == [i \in 1..Len(sret.failures) |-> sret.failures[i].note]
              IN /\ SelectSeq(failed, Lacking) = lacking
                 /\ Len(sret.data) <= Len(response.results) - Len(lacking)

\* With a custom mapping of slug, the first result note was mapped with its
\* standard fields and slug, and the second, which has no title, failed
C20_Witness ==
    /\ cpc = "resolved"
    /\ KeysOf(options.mapping) = {"slug"}
    /\ Len(response.results) = 2
    /\ ~Lacking(response.results[1])
    /\ response.results[2].title = Undefined
    /\ Len(sret.data) = 1
    /\ Get(sret.data[1], "id") = response.results[1].noteId
    /\ Get(sret.data[1], "slug") # Undefined
    /\ Len(sret.failures) = 1
    /\ sret.failures[1].note = response.results[2]

----------------------------------------------------------------------------
(* The notes a map() call was handed *)

\* Did the mapping of the i-th note of the call look among its attributes?
SearchedAttributes(i) ==
    /\ arg.notes[i].attributes.present
    /\ arg.notes[i].attributes.items # <<>>
    /\ \E c \in 1..Len(ret.calls[i]), f \in 1..Len(config) :
          /\ ret.calls[i][c].what = "direct"
          /\ ret.calls[i][c].key = config[f].key
          /\ config[f].mapping.fromFn = ""
          /\ StartsWith(config[f].mapping.from, <<"#">>)

\* C21: after a map call, of one note or of an array, that returned or threw,
\* every note handed to it, its attribute list included, is as it was when
\* the call was made.
C21_MapperOnlyReads ==
    pc \in {"returned", "thrown"} => held = arg.notes

\* A batch whose second note throws after the first was mapped from its labels
C21_Witness ==
    /\ pc = "thrown"
    /\ arg.isArray
    /\ Len(arg.notes) = 2
    /\ Len(ret.calls) = 2
    /\ SearchedAttributes(1)
    /\ SearchedAttributes(2)
    /\ held = arg.notes

----------------------------------------------------------------------------
(* The built-in transforms' claim *)

\* Strings that are no number, no boolean word, no JSON text and no date
Unparseable == {Str(x) : x \in {"abc", "maybe", "not a date", "{invalid}"}}

\* A required field with a default, read from a note whose title is the
\* value and transformed by the transform called
Defaulted ==
    LET cfg == <<Field("field", From(<<"note", ".", "title">>, targ.transform,
                                     Str("fallback"), TRUE))>>
        note == Note(Str("n"), targ.value, Undefined, Undefined, NoAttrs)
        mapped == mapSingle(cfg, note)
    IN ~mapped.thrown /\ mapped.value = <<[value |-> Str("fallback"), key |-> "field"]>>

\* C22: each built-in transform returns undefined, and does not throw, for
\* undefined, null and the empty string; number, boolean, json and date do so
\* too for a string they cannot parse; a configured default then becomes the
\* value of the field.
C22_TransformsGiveUndefined ==
    LET empty == targ.value \in {Undefined, Null, Str("")}
        garbage == /\ targ.transform \in {"number", "boolean", "json", "date"}
                   /\ targ.value \in Unparseable
    IN tpc # "idle" /\ (empty \/ garbage) =>
          /\ tpc = "returned"
          /\ tret.value = Undefined
          /\ Defaulted

\* transforms.json was handed a text that JSON.parse rejects
C22_Witness ==
    /\ tpc = "returned"
    /\ targ = [value |-> Str("{invalid}"), transform |-> "json"]
    /\ JSONParse(targ.value.s).thrown
    /\ tret.value = Undefined
    /\ Defaulted

----------------------------------------------------------------------------
(* extractValue's claims *)

\* The attributes of the note of the call, none when it has no list
ItsAttributes == IF xarg.note.attributes.present THEN xarg.note.attributes.items ELSE <<>>

\* Is the i-th attribute one that the path of the call names?
Named(i) ==
    /\ ItsAttributes[i].name = Tail(xarg.path)
    /\ ItsAttributes[i].type = (IF Head(xarg.path) = "#" THEN "label" ELSE "relation")

AttributePath == xarg.path # <<>> /\ Head(xarg.path) \in {"#", "~"}

\* C25: '#name' yields the value of the first attribute of type label named
\* name, '~name' that of the first attribute of type relation named name: an
\* earlier attribute of the other type and a later one of the same name are
\* passed over.
C25_FirstAttributeOfItsType ==
    (xpc # "idle" /\ AttributePath) =>
        /\ xpc = "returned"
        /\ \A i \in 1..Len(ItsAttributes) :
              (Named(i) /\ \A j \in 1..(i - 1) : ~Named(j)) =>
                  xret.value = Str(ItsAttributes[i].value)
        /\ xret.value # Undefined => \E i \in 1..Len(ItsAttributes) : Named(i)

\* '#slug' gave the first label slug of a note whose first attribute is a
\* relation slug and which has a second label slug
C25_Witness ==
    /\ xpc = "returned"
    /\ xarg.path = <<"#", "slug">>
    /\ Len(ItsAttributes) >= 3
    /\ ItsAttributes[1].type = "relation" /\ ItsAttributes[1].name = <<"slug">>
    /\ Named(2) /\ Named(3)
    /\ xret.value = Str(ItsAttributes[2].value)
    /\ xret.value # Str(ItsAttributes[3].value)

\* The segments of a 'note.' path
Segments == Split(Slice(xarg.path, 2))

\* The cases of a path that names nothing on the note of the call
NamesNothing ==
    \/ AttributePath /\ \A i \in 1..Len(ItsAttributes) : ~Named(i)
    \/ /\ StartsWith(xarg.path, <<"note", ".">>)
       /\ Len(Segments) >= 2
       /\ NoteProp(xarg.note, Segments[1]) = Undefined
    \/ ~AttributePath /\ ~StartsWith(xarg.path, <<"note", ".">>)

\* A field given by the path of the call alone, mapped from its note
MappedAlone == mapSingle(<<Field("field", Shorthand(xarg.path))>>, xarg.note)

\* C26: extraction by a string path does not throw, and for a path that names
\* nothing (no such attribute or no attribute list, a missing property on
\* the way, none of the prefixes) the value is undefined and a field without
\* default that is not required maps to undefined.
C26_ExtractionNeverThrows ==
    xpc # "idle" =>
        /\ xpc = "returned"
        /\ NamesNothing =>
              /\ xret = Returned(Undefined)
              /\ ~MappedAlone.thrown
              /\ Get(MappedAlone.value, "field") = Undefined

\* '#slug' was asked of a note without attribute list
C26_Witness ==
    /\ xpc = "returned"
    /\ xarg.path = <<"#", "slug">>
    /\ ~xarg.note.attributes.present
    /\ xret = Returned(Undefined)
    /\ MappedAlone.value = <<[value |-> Undefined, key |-> "field"]>>

----------------------------------------------------------------------------
(* merge and the configurations handed to it by searchAndMap *)

\* The keys of an object of data
ObjectKeys(obj) == {obj[p].key : p \in 1..Len(obj)}

\* C29: merge leaves its arguments as they are: at every step, whatever
\* searchAndMap calls came before, the shared StandardNoteMapping has its
\* four original fields and the custom mapping of the call is the one handed
\* in; the objects of a call have standard keys and keys of its own custom
\* mapping only.
C29_MergeLeavesArgumentsAlone ==
    [][ /\ standard' = StandardNoteMapping
        /\ KeysOf(standard') = {StandardKeys[j] : j \in 1..Len(StandardKeys)}
        /\ cpc = "awaiting" => options'.mapping = options.mapping
        /\ cpc' = "resolved" =>
              \A d \in 1..Len(sret'.data) :
                  ObjectKeys(sret'.data[d])
                      \subseteq KeysOf(StandardNoteMapping) \cup KeysOf(options.mapping)
      ]_vars

\* A call with a custom field mapped a note; the standard mapping is as it was
C29_Witness ==
    /\ cpc = "resolved"
    /\ options.mapping # <<>>
    /\ KeysOf(options.mapping) \cap KeysOf(StandardNoteMapping) = {}
    /\ sret.data # <<>>
    /\ KeysOf(options.mapping) \subseteq ObjectKeys(sret.data[1])
    /\ standard = StandardNoteMapping

----------------------------------------------------------------------------
(* What the mapper hands searchAndMap for one note *)

\* mapper.map([note]) of the invocation for a note of the response
MappedOne(note) == map(FullMapping, NoteArray(<<note>>))

\* C30: for every note of the response mapper.map([note]) throws or returns
\* an array with one object, so the reason of every entry of failures is the
\* message of the error thrown for its note and never "Mapping returned
\* undefined".
C30_NeverMappingReturnedUndefined ==
    cpc = "resolved" =>
        /\ \A r \in 1..Len(response.results) :
              LET m == MappedOne(response.results[r])
              IN m.thrown \/ Len(m.value) = 1
        /\ \A f \in 1..Len(sret.failures) :
              LET m == MappedOne(sret.failures[f].note)
              IN /\ sret.failures[f].reason # <<"Mapping returned undefined">>
                 /\ m.thrown
                 /\ sret.failures[f].reason = m.error

\* A note failed with the error its custom computed function threw
C30_Witness ==
    /\ cpc = "resolved"
    /\ sret.failures # <<>>
    /\ sret.failures[1].reason = <<"computed failed">>
    /\ MappedOne(sret.failures[1].note).thrown

====
